---------------------------- MODULE Spec2Model ----------------------------
(***************************************************************************)
(* State-machine model of the Catan game server:                           *)
(*   server/src/game-logic/game.ts   (rules engine, GameState mutations)   *)
(*   server/src/game-logic/board.ts  (board graph, longest road)           *)
(*   server/src/sockets/rooms.ts     (room registry, join / leave)         *)
(*   server/src/sockets/handlers.ts  (socket handlers: phase/actor gates)  *)
(*                                                                         *)
(* The GameState object is the record variable `state`; every engine       *)
(* function f(state, ...) that mutates it is an operator f(st, ...) that   *)
(* returns the mutated record, and every socket handler is one action.     *)
(* A handler call that returns early changes nothing and is a stuttering   *)
(* step, so an action is enabled exactly when its handler mutates state.   *)
(*                                                                         *)
(* Identifiers: hexes 1..19, vertices 1..54 and edges 1..72 are numbered   *)
(* in the order generateBoard creates them (the array order of             *)
(* board.hexes / board.vertices / board.edges); player ids are socket ids  *)
(* (positive integers); 0 and "null" stand for null.  The activity log is  *)
(* write-only in the engine (nothing reads it back) and is not part of     *)
(* `state` here.                                                           *)
(***************************************************************************)
EXTENDS Integers, Sequences, FiniteSets, TLC

VARIABLES
    state,           \* room.gameState : GameState
    playerToRoom,    \* rooms.ts playerToRoom: socket ids mapped to the room
    seatSocket,      \* environment: the socket each named person now uses (0: none)
    socketsOpened,   \* environment: how many socket connections were opened so far
    secondPlaced     \* history: the vertex each player placed in setup round 2

vars == <<state, playerToRoom, seatSocket, socketsOpened, secondPlaced>>

-----------------------------------------------------------------------------
(* Types and program constants *)

ResourceTypes == {"wood", "brick", "sheep", "wheat", "ore"}

NoPlayer == 0

BUILDING_LIMITS_roads == 15
BUILDING_LIMITS_settlements == 5
BUILDING_LIMITS_cities == 4

Cost(w, b, s, wh, o) ==
    [r \in ResourceTypes |->
        CASE r = "wood" -> w [] r = "brick" -> b [] r = "sheep" -> s
          [] r = "wheat" -> wh [] OTHER -> o]

BUILDING_COSTS ==
    [road       |-> Cost(1, 1, 0, 0, 0),
     settlement |-> Cost(1, 1, 1, 1, 0),
     city       |-> Cost(0, 0, 0, 2, 3),
     devCard    |-> Cost(0, 0, 1, 1, 1)]

createEmptyResources == Cost(0, 0, 0, 0, 0)

TERRAIN_TO_RESOURCE(terrain) == IF terrain = "desert" THEN "null" ELSE terrain

DEV_CARD_DISTRIBUTION ==
    [i \in 1..25 |->
        IF i <= 14 THEN "knight"
        ELSE IF i <= 19 THEN "victory_point"
        ELSE IF i <= 21 THEN "road_building"
        ELSE IF i <= 23 THEN "year_of_plenty"
        ELSE "monopoly"]

TERRAIN_DISTRIBUTION ==
    << "wood", "wood", "wood", "wood", "sheep", "sheep", "sheep", "sheep",
       "wheat", "wheat", "wheat", "wheat", "brick", "brick", "brick",
       "ore", "ore", "ore", "desert" >>

NUMBER_DISTRIBUTION ==
    << 2, 3, 3, 4, 4, 5, 5, 6, 6, 8, 8, 9, 9, 10, 10, 11, 11, 12 >>

-----------------------------------------------------------------------------
(* Board topology: what generateBoard derives from HEX_COORDS.  The hexes   *)
(* are numbered in HEX_COORDS order (1 is the centre, 2..7 the first ring, *)
(* 8..19 the second ring); vertices and edges in the order their position  *)
(* keys are first met while the hexes' corners are walked.                 *)

HexIds == 1..19
VertexIds == 1..54
EdgeIds == 1..72

\* vertex.hexIds of every vertex
VertexHexIds ==
    << {1,2,7}, {1,2,3}, {1,3,4}, {1,4,5}, {1,5,6}, {1,6,7},
       {2,8,19}, {2,8,9}, {2,3,9}, {2,7,19}, {3,9,10}, {3,10,11},
       {3,4,11}, {4,11,12}, {4,12,13}, {4,5,13}, {5,13,14}, {5,14,15},
       {5,6,15}, {6,7,17}, {6,15,16}, {6,16,17}, {7,18,19}, {7,17,18},
       {8}, {8}, {8,9}, {8,19}, {9}, {9,10},
       {10}, {10}, {10,11}, {11}, {11,12}, {12},
       {12}, {12,13}, {13}, {13,14}, {14}, {14},
       {14,15}, {15}, {15,16}, {16,17}, {16}, {16},
       {17,18}, {17}, {18}, {18,19}, {18}, {19} >>

\* edge.vertexIds of every edge
EdgeVertexIds ==
    << <<1,2>>, <<2,3>>, <<3,4>>, <<4,5>>, <<5,6>>, <<6,1>>,
       <<7,8>>, <<8,9>>, <<9,2>>, <<1,10>>, <<10,7>>, <<9,11>>,
       <<11,12>>, <<12,13>>, <<13,3>>, <<13,14>>, <<14,15>>, <<15,16>>,
       <<16,4>>, <<16,17>>, <<17,18>>, <<18,19>>, <<19,5>>, <<20,6>>,
       <<19,21>>, <<21,22>>, <<22,20>>, <<23,10>>, <<20,24>>, <<24,23>>,
       <<25,26>>, <<26,27>>, <<27,8>>, <<7,28>>, <<28,25>>, <<27,29>>,
       <<29,30>>, <<30,11>>, <<30,31>>, <<31,32>>, <<32,33>>, <<33,12>>,
       <<33,34>>, <<34,35>>, <<35,14>>, <<35,36>>, <<36,37>>, <<37,38>>,
       <<38,15>>, <<38,39>>, <<39,40>>, <<40,17>>, <<40,41>>, <<41,42>>,
       <<42,43>>, <<43,18>>, <<43,44>>, <<44,45>>, <<45,21>>, <<46,22>>,
       <<45,47>>, <<47,48>>, <<48,46>>, <<49,24>>, <<46,50>>, <<50,49>>,
       <<51,52>>, <<52,23>>, <<49,53>>, <<53,51>>, <<54,28>>, <<52,54>> >>

\* harbors: fixed kinds (HARBOR_TYPES) at fixed anchors (HARBOR_EDGE_POSITIONS)
Harbors ==
    << [type |-> "3:1",   vertexIds |-> <<53, 51>>],
       [type |-> "wheat", vertexIds |-> <<54, 28>>],
       [type |-> "ore",   vertexIds |-> <<29, 30>>],
       [type |-> "3:1",   vertexIds |-> <<32, 33>>],
       [type |-> "sheep", vertexIds |-> <<34, 35>>],
       [type |-> "3:1",   vertexIds |-> <<37, 38>>],
       [type |-> "3:1",   vertexIds |-> <<42, 43>>],
       [type |-> "brick", vertexIds |-> <<47, 48>>],
       [type |-> "wood",  vertexIds |-> <<50, 49>>] >>

EdgeEnds(e) == {EdgeVertexIds[e][1], EdgeVertexIds[e][2]}

\* board.ts getAdjacentVertices: the other endpoint of every edge at vertexId
getAdjacentVertices(vertexId) ==
    { IF EdgeVertexIds[e][1] = vertexId THEN EdgeVertexIds[e][2]
                                        ELSE EdgeVertexIds[e][1] :
        e \in {x \in EdgeIds : vertexId \in EdgeEnds(x)} }

\* the edges at each vertex, tabulated once
VertexEdges == [v \in VertexIds |-> {e \in EdgeIds : v \in EdgeEnds(e)}]

\* game.ts getVertexEdges
getVertexEdges(vertexId) == VertexEdges[vertexId]

\* board.ts getHexVertices
getHexVertices(hexId) == {v \in VertexIds : hexId \in VertexHexIds[v]}

-----------------------------------------------------------------------------
(* Small helpers *)

Max(S) == CHOOSE x \in S : \A y \in S : y <= x

RECURSIVE SumOver(_, _)
SumOver(f, S) ==
    IF S = {} THEN 0
    ELSE LET x == CHOOSE y \in S : TRUE IN f[x] + SumOver(f, S \ {x})

PlayerIdxs(st) == DOMAIN st.players

getCurrentPlayer(st) == st.players[st.currentPlayerIndex + 1]

HasPlayer(st, playerId) == \E i \in PlayerIdxs(st) : st.players[i].id = playerId

\* game.ts getPlayerById, as the player's position in state.players (1-based)
getPlayerById(st, playerId) ==
    CHOOSE i \in PlayerIdxs(st) :
        /\ st.players[i].id = playerId
        /\ \A j \in PlayerIdxs(st) : st.players[j].id = playerId => i <= j

hasResources(player, cost) ==
    \A r \in ResourceTypes : player.resources[r] >= cost[r]

deductResources(player, cost) ==
    [player EXCEPT !.resources = [r \in ResourceTypes |-> @[r] - cost[r]]]

addResources(player, res) ==
    [player EXCEPT !.resources = [r \in ResourceTypes |-> @[r] + res[r]]]

getTotalResources(player) == SumOver(player.resources, ResourceTypes)

\* entries the log keeps
LogLimit == 50

\* uuid() for a new entry: an id that no entry ever had.  Ids are numbered in
\* the order they are drawn, and the newest entry is the last of the log
NewLogId(log) == IF Len(log) = 0 THEN 1 ELSE log[Len(log)].id + 1

\* Array.slice(-n) of an array longer than n: its last n elements
SliceLast(array, n) == SubSeq(array, Len(array) - n + 1, Len(array))

\* addLogEntry that trims a full log with slice(0, 50): the new entry is lost
addLogEntryKeepsOldest(st, type, playerId) ==
    LET pushed == Append(st.log, [id |-> NewLogId(st.log)]) IN
    [st EXCEPT !.log = IF Len(pushed) > LogLimit THEN SubSeq(pushed, 1, LogLimit)
                       ELSE pushed]

\* game.ts addLogEntry: push, then keep the last LogLimit entries.  An entry is
\* kept by its id; timestamp, message, type and playerId are left out
addLogEntry(st, type, playerId) ==
    LET pushed == Append(st.log, [id |-> NewLogId(st.log)]) IN
    [st EXCEPT !.log = IF Len(pushed) > LogLimit THEN SliceLast(pushed, LogLimit)
                       ELSE pushed]

-----------------------------------------------------------------------------
(* game.ts: construction *)

createPlayer(id, name) ==
    [id |-> id, name |-> name,
     resources |-> createEmptyResources,
     victoryPoints |-> 0, roadsBuilt |-> 0, settlementsBuilt |-> 0,
     citiesBuilt |-> 0, longestRoad |-> 0, connected |-> TRUE,
     devCards |-> << >>, knightsPlayed |-> 0, devCardPlayedThisTurn |-> FALSE,
     setupSettlementsPlaced |-> 0, lastPlacedVertexId |-> 0]

\* a is b reordered (what shuffle can return for b)
IsShuffleOf(a, b) ==
    /\ Len(a) = Len(b)
    /\ \A x \in {b[i] : i \in 1..Len(b)} :
          Cardinality({i \in 1..Len(a) : a[i] = x})
            = Cardinality({i \in 1..Len(b) : b[i] = x})

\* generateBoard that starts the robber on the first hex
generateBoardRobberFirst(terrains, numbers) ==
    [hexes |->
        [i \in HexIds |->
            [terrain |-> terrains[i],
             number |-> IF terrains[i] = "desert" THEN 0
                        ELSE numbers[Cardinality({j \in 1..i : terrains[j] # "desert"})],
             hasRobber |-> i = 1]],
     vertices |-> [v \in VertexIds |-> [building |-> "null", playerId |-> NoPlayer]],
     edges |-> [e \in EdgeIds |-> [road |-> FALSE, playerId |-> NoPlayer]]]

\* board.ts generateBoard: the hex tiles for shuffled terrains and numbers;
\* numbers are handed out in hex order, the desert takes none (0) and the robber
generateBoard(terrains, numbers) ==
    [hexes |->
        [i \in HexIds |->
            [terrain |-> terrains[i],
             number |-> IF terrains[i] = "desert" THEN 0
                        ELSE numbers[Cardinality({j \in 1..i : terrains[j] # "desert"})],
             hasRobber |-> terrains[i] = "desert"]],
     vertices |-> [v \in VertexIds |-> [building |-> "null", playerId |-> NoPlayer]],
     edges |-> [e \in EdgeIds |-> [road |-> FALSE, playerId |-> NoPlayer]]]

generateDevCardDeck(shuffled) == [i \in 1..Len(shuffled) |-> [type |-> shuffled[i], boughtThisTurn |-> FALSE]]

NoOffer ==
    [fromPlayerId |-> NoPlayer, toPlayerId |-> NoPlayer,
     offering |-> createEmptyResources, requesting |-> createEmptyResources,
     status |-> "null"]

createGameState(playerData, settings, terrains, numbers, shuffledDeck) ==
    [phase |-> "setup_settlement",
     players |-> [i \in 1..Len(playerData) |-> createPlayer(playerData[i], i)],
     currentPlayerIndex |-> 0,
     board |-> generateBoard(terrains, numbers),
     lastDiceRoll |-> << >>,
     tradeOffer |-> NoOffer,
     winnerId |-> NoPlayer,
     turnNumber |-> 0,
     discardingPlayerIds |-> << >>,
     longestRoadPlayerId |-> NoPlayer,
     largestArmyPlayerId |-> NoPlayer,
     settings |-> settings,
     setupRound |-> 1,
     setupDirection |-> "forward",
     devCardDeck |-> generateDevCardDeck(shuffledDeck),
     roadBuildingRoadsLeft |-> 0,
     phaseBeforeRobber |-> "null",
     log |-> << >>]

\* rooms.ts getDefaultGameSettings
getDefaultGameSettings(playerCount) ==
    [maxPlayers |-> playerCount,
     handLimit |-> IF playerCount = 2 THEN 9 ELSE 7,
     victoryPointsToWin |-> 10]

-----------------------------------------------------------------------------
(* game.ts: setup phase *)

canPlaceInitialSettlement(st, playerId, vertexId) ==
    /\ st.phase = "setup_settlement"
    /\ getCurrentPlayer(st).id = playerId
    /\ vertexId \in VertexIds
    /\ st.board.vertices[vertexId].building = "null"
    /\ \A v \in getAdjacentVertices(vertexId) : st.board.vertices[v].building = "null"

placeInitialSettlement(st, playerId, vertexId) ==
    LET i == getPlayerById(st, playerId)
        placed == [st EXCEPT
                     !.board.vertices[vertexId] =
                         [building |-> "settlement", playerId |-> playerId],
                     !.players[i].settlementsBuilt = @ + 1,
                     !.players[i].victoryPoints = @ + 1,
                     !.players[i].setupSettlementsPlaced = @ + 1,
                     !.players[i].lastPlacedVertexId = vertexId]
    IN  [addLogEntry(placed, "build", playerId) EXCEPT !.phase = "setup_road"]

canPlaceInitialRoad(st, playerId, edgeId) ==
    /\ st.phase = "setup_road"
    /\ getCurrentPlayer(st).id = playerId
    /\ getCurrentPlayer(st).lastPlacedVertexId # 0
    /\ edgeId \in EdgeIds
    /\ ~st.board.edges[edgeId].road
    /\ getCurrentPlayer(st).lastPlacedVertexId \in EdgeEnds(edgeId)

\* for each player, in state.players order: the LAST of the player's settlements
\* in board.vertices order pays one card per non-desert hex it touches
giveStartingResources(st) ==
    addLogEntry(
    [st EXCEPT !.players =
        [i \in PlayerIdxs(st) |->
            LET settlements == {v \in VertexIds :
                                  /\ st.board.vertices[v].playerId = st.players[i].id
                                  /\ st.board.vertices[v].building = "settlement"}
            IN  IF Cardinality(settlements) >= 2
                THEN LET secondSettlement == Max(settlements) IN
                     [st.players[i] EXCEPT !.resources =
                        [r \in ResourceTypes |->
                            @[r] + Cardinality({h \in VertexHexIds[secondSettlement] :
                                     TERRAIN_TO_RESOURCE(st.board.hexes[h].terrain) = r})]]
                ELSE st.players[i]]],
    "system", NoPlayer)

\* the end of setup: starting hands, phase 'roll', turn 1 and two log entries
SetupComplete(st) ==
    addLogEntry(
        addLogEntry([giveStartingResources(st) EXCEPT !.phase = "roll", !.turnNumber = 1],
                    "system", NoPlayer),
        "system", NoPlayer)

\* the tail of advanceSetupTurn when setup goes on: phase and the log entry
NextToPlace(st) ==
    addLogEntry([st EXCEPT !.phase = "setup_settlement"], "system", NoPlayer)

\* a setup draft that goes round forward twice
advanceSetupTurnForwardTwice(st) ==
    LET numPlayers == Len(st.players) IN
    IF st.currentPlayerIndex < numPlayers - 1
    THEN NextToPlace([st EXCEPT !.currentPlayerIndex = @ + 1])
    ELSE IF st.setupRound = 1
         THEN NextToPlace([st EXCEPT !.currentPlayerIndex = 0,
                                     !.setupDirection = "reverse", !.setupRound = 2])
         ELSE SetupComplete(st)

advanceSetupTurn(st) ==
    LET numPlayers == Len(st.players) IN
    IF st.setupRound = 1
    THEN IF st.setupDirection = "forward"
         THEN IF st.currentPlayerIndex < numPlayers - 1
              THEN NextToPlace([st EXCEPT !.currentPlayerIndex = @ + 1])
              ELSE NextToPlace([st EXCEPT !.setupDirection = "reverse", !.setupRound = 2])
         ELSE NextToPlace(st)
    ELSE IF st.currentPlayerIndex > 0
         THEN NextToPlace([st EXCEPT !.currentPlayerIndex = @ - 1])
         ELSE SetupComplete(st)

placeInitialRoad(st, playerId, edgeId) ==
    LET i == getPlayerById(st, playerId) IN
    advanceSetupTurn(
        addLogEntry(
            [st EXCEPT
                !.board.edges[edgeId] = [road |-> TRUE, playerId |-> playerId],
                !.players[i].roadsBuilt = @ + 1,
                !.players[i].lastPlacedVertexId = 0],
            "build", playerId))

-----------------------------------------------------------------------------
(* game.ts: dice and production *)

rollDice(st, die1, die2) == [st EXCEPT !.lastDiceRoll = <<die1, die2>>]

\* ProducingHexes without the robber test
ProducingHexesRobbed(st, diceTotal) ==
    {h \in HexIds : st.board.hexes[h].number = diceTotal}

\* the hexes distributeResources pays from: right number, no robber
ProducingHexes(st, diceTotal) ==
    {h \in HexIds : st.board.hexes[h].number = diceTotal /\ ~st.board.hexes[h].hasRobber}

\* what the player with id playerId is credited with resource r: per producing
\* hex of that resource, 1 per settlement and 2 per city on its vertices
Production(st, playerId, r, hexes) ==
    LET owned == {v \in VertexIds : /\ st.board.vertices[v].playerId = playerId
                                    /\ st.board.vertices[v].building # "null"}
        paid == [v \in owned |->
                    (IF st.board.vertices[v].building = "city" THEN 2 ELSE 1)
                    * Cardinality({h \in VertexHexIds[v] \cap hexes :
                          TERRAIN_TO_RESOURCE(st.board.hexes[h].terrain) = r})]
    IN  SumOver(paid, owned)

distributeResources(st, diceTotal) ==
    LET hexes == ProducingHexes(st, diceTotal) IN
    [st EXCEPT !.players =
        [i \in PlayerIdxs(st) |->
            [st.players[i] EXCEPT !.resources =
                [r \in ResourceTypes |->
                    @[r] + Production(st, st.players[i].id, r, hexes)]]]]

-----------------------------------------------------------------------------
(* board.ts: connectivity and longest road *)

\* isEdgeConnectedToPlayer that finds every edge connected
isEdgeConnectedAnywhere(board, edgeId, playerId) == TRUE

isEdgeConnectedToPlayer(board, edgeId, playerId) ==
    \/ \E v \in EdgeEnds(edgeId) : board.vertices[v].playerId = playerId
    \/ \E v \in EdgeEnds(edgeId) : \E e \in getVertexEdges(v) :
          board.edges[e].road /\ board.edges[e].playerId = playerId

\* the adjacency map calculateLongestRoad builds: for each edge of the player,
\* the player's other edges met at an endpoint that holds no other player's
\* building
LongestRoadAdjacency(board, playerId, playerEdges) ==
    [edgeId \in playerEdges |->
        {other \in playerEdges :
            /\ other # edgeId
            /\ \E v \in EdgeEnds(edgeId) :
                  /\ ~(board.vertices[v].playerId # NoPlayer
                       /\ board.vertices[v].playerId # playerId)
                  /\ v \in EdgeEnds(other)}]

MaxOf(S) == IF S = {} THEN 0 ELSE Max(S)

\* the inner function dfs(edgeId, visited); every branch gets its own copy of
\* the visited set
RECURSIVE dfs(_, _, _)
dfs(adjacency, edgeId, visited) ==
    LET seen == visited \cup {edgeId} IN
    1 + MaxOf({dfs(adjacency, neighbor, seen) : neighbor \in adjacency[edgeId] \ seen})

calculateLongestRoad(board, playerId) ==
    LET playerEdges == {e \in EdgeIds :
                          board.edges[e].road /\ board.edges[e].playerId = playerId}
        adjacency == LongestRoadAdjacency(board, playerId, playerEdges)
    IN  MaxOf({dfs(adjacency, e, {}) : e \in playerEdges})

-----------------------------------------------------------------------------
(* game.ts: longest road, largest army, victory *)

\* the for-loop of updateLongestRoadBonus / updateLargestArmyBonus: scans
\* state.players in order from position i, keeping the first strict maximum
RECURSIVE LeaderScan(_, _, _, _, _)
LeaderScan(players, field, i, maxSoFar, leaderId) ==
    IF i > Len(players) THEN leaderId
    ELSE IF players[i][field] > maxSoFar
         THEN LeaderScan(players, field, i + 1, players[i][field], players[i].id)
         ELSE LeaderScan(players, field, i + 1, maxSoFar, leaderId)

\* the two ifs that move the 2 VP from the previous holder to the new one
MoveBonus(st, holderId, leaderId) ==
    LET removed ==
            IF holderId # NoPlayer /\ holderId # leaderId /\ HasPlayer(st, holderId)
            THEN [st EXCEPT !.players[getPlayerById(st, holderId)].victoryPoints = @ - 2]
            ELSE st
    IN  IF leaderId # NoPlayer /\ leaderId # holderId /\ HasPlayer(st, leaderId)
        THEN addLogEntry(
                 [removed EXCEPT !.players[getPlayerById(st, leaderId)].victoryPoints = @ + 2],
                 "victory", leaderId)
        ELSE removed

updateLongestRoadBonus(st) ==
    LET leaderId == LeaderScan(st.players, "longestRoad", 1, 4, NoPlayer) IN
    [MoveBonus(st, st.longestRoadPlayerId, leaderId) EXCEPT !.longestRoadPlayerId = leaderId]

updateLargestArmyBonus(st) ==
    LET leaderId == LeaderScan(st.players, "knightsPlayed", 1, 2, NoPlayer) IN
    [MoveBonus(st, st.largestArmyPlayerId, leaderId) EXCEPT !.largestArmyPlayerId = leaderId]

HiddenVP(player) ==
    Cardinality({k \in DOMAIN player.devCards : player.devCards[k].type = "victory_point"})

\* checkVictory naming the winner without adding the held victory point cards
RECURSIVE VictoryScanNoReveal(_, _)
VictoryScanNoReveal(st, i) ==
    IF i > Len(st.players) THEN st
    ELSE LET hiddenVP == HiddenVP(st.players[i])
             totalVP == st.players[i].victoryPoints + hiddenVP
         IN  IF totalVP >= st.settings.victoryPointsToWin
             THEN addLogEntry([st EXCEPT !.winnerId = st.players[i].id,
                                         !.phase = "ended"],
                              "victory", st.players[i].id)
             ELSE VictoryScanNoReveal(st, i + 1)

RECURSIVE VictoryScan(_, _)
VictoryScan(st, i) ==
    IF i > Len(st.players) THEN st
    ELSE LET hiddenVP == HiddenVP(st.players[i])
             totalVP == st.players[i].victoryPoints + hiddenVP
         IN  IF totalVP >= st.settings.victoryPointsToWin
             THEN addLogEntry([st EXCEPT !.players[i].victoryPoints = @ + hiddenVP,
                                         !.winnerId = st.players[i].id,
                                         !.phase = "ended"],
                              "victory", st.players[i].id)
             ELSE VictoryScan(st, i + 1)

checkVictory(st) == VictoryScan(st, 1)

-----------------------------------------------------------------------------
(* game.ts: building *)

\* canBuildRoad without the test that the edge has no road
canBuildRoadOver(st, playerId, edgeId, free) ==
    /\ HasPlayer(st, playerId)
    /\ st.players[getPlayerById(st, playerId)].roadsBuilt < BUILDING_LIMITS_roads
    /\ edgeId \in EdgeIds
    /\ (free \/ hasResources(st.players[getPlayerById(st, playerId)], BUILDING_COSTS.road))
    /\ isEdgeConnectedToPlayer(st.board, edgeId, playerId)

canBuildRoad(st, playerId, edgeId, free) ==
    /\ HasPlayer(st, playerId)
    /\ st.players[getPlayerById(st, playerId)].roadsBuilt < BUILDING_LIMITS_roads
    /\ edgeId \in EdgeIds
    /\ ~st.board.edges[edgeId].road
    /\ (free \/ hasResources(st.players[getPlayerById(st, playerId)], BUILDING_COSTS.road))
    /\ isEdgeConnectedToPlayer(st.board, edgeId, playerId)

buildRoad(st, playerId, edgeId, free) ==
    LET i == getPlayerById(st, playerId)
        paid == IF free THEN st
                ELSE [st EXCEPT !.players[i] = deductResources(@, BUILDING_COSTS.road)]
        built == [paid EXCEPT
                    !.board.edges[edgeId] = [road |-> TRUE, playerId |-> playerId],
                    !.players[i].roadsBuilt = @ + 1]
    IN  addLogEntry(
            updateLongestRoadBonus(
                [built EXCEPT !.players[i].longestRoad =
                                calculateLongestRoad(built.board, playerId)]),
            "build", playerId)

\* canBuildSettlement without the test of settlementsBuilt
canBuildSettlementNoLimit(st, playerId, vertexId) ==
    /\ HasPlayer(st, playerId)
    /\ vertexId \in VertexIds
    /\ st.board.vertices[vertexId].building = "null"
    /\ hasResources(st.players[getPlayerById(st, playerId)], BUILDING_COSTS.settlement)
    /\ \A v \in getAdjacentVertices(vertexId) : st.board.vertices[v].building = "null"
    /\ \E e \in EdgeIds :
          /\ vertexId \in EdgeEnds(e)
          /\ st.board.edges[e].road
          /\ st.board.edges[e].playerId = playerId

\* a settlement check without the distance rule
canBuildSettlementAnyDistance(st, playerId, vertexId) ==
    /\ HasPlayer(st, playerId)
    /\ st.players[getPlayerById(st, playerId)].settlementsBuilt < BUILDING_LIMITS_settlements
    /\ vertexId \in VertexIds
    /\ st.board.vertices[vertexId].building = "null"
    /\ hasResources(st.players[getPlayerById(st, playerId)], BUILDING_COSTS.settlement)
    /\ \E e \in EdgeIds :
          /\ vertexId \in EdgeEnds(e)
          /\ st.board.edges[e].road
          /\ st.board.edges[e].playerId = playerId

canBuildSettlement(st, playerId, vertexId) ==
    /\ HasPlayer(st, playerId)
    /\ st.players[getPlayerById(st, playerId)].settlementsBuilt < BUILDING_LIMITS_settlements
    /\ vertexId \in VertexIds
    /\ st.board.vertices[vertexId].building = "null"
    /\ hasResources(st.players[getPlayerById(st, playerId)], BUILDING_COSTS.settlement)
    /\ \A v \in getAdjacentVertices(vertexId) : st.board.vertices[v].building = "null"
    /\ \E e \in EdgeIds :
          /\ vertexId \in EdgeEnds(e)
          /\ st.board.edges[e].road
          /\ st.board.edges[e].playerId = playerId

buildSettlement(st, playerId, vertexId) ==
    LET i == getPlayerById(st, playerId) IN
    checkVictory(
        addLogEntry(
            [st EXCEPT
                !.players[i] = [deductResources(@, BUILDING_COSTS.settlement) EXCEPT
                                   !.settlementsBuilt = @ + 1,
                                   !.victoryPoints = @ + 1],
                !.board.vertices[vertexId] =
                    [building |-> "settlement", playerId |-> playerId]],
            "build", playerId))

canBuildCity(st, playerId, vertexId) ==
    /\ HasPlayer(st, playerId)
    /\ st.players[getPlayerById(st, playerId)].citiesBuilt < BUILDING_LIMITS_cities
    /\ vertexId \in VertexIds
    /\ st.board.vertices[vertexId].building = "settlement"
    /\ st.board.vertices[vertexId].playerId = playerId
    /\ hasResources(st.players[getPlayerById(st, playerId)], BUILDING_COSTS.city)

\* buildCity that leaves settlementsBuilt as it was
buildCityKeepsSettlements(st, playerId, vertexId) ==
    LET i == getPlayerById(st, playerId) IN
    checkVictory(
        addLogEntry(
            [st EXCEPT
                !.players[i] = [deductResources(@, BUILDING_COSTS.city) EXCEPT
                                   !.citiesBuilt = @ + 1,
                                   !.victoryPoints = @ + 1],
                !.board.vertices[vertexId].building = "city"],
            "build", playerId))

\* buildCity crediting 2 victory points for the upgrade instead of 1
buildCityTwoPoints(st, playerId, vertexId) ==
    LET i == getPlayerById(st, playerId) IN
    checkVictory(
        addLogEntry(
            [st EXCEPT
                !.players[i] = [deductResources(@, BUILDING_COSTS.city) EXCEPT
                                   !.settlementsBuilt = @ - 1,
                                   !.citiesBuilt = @ + 1,
                                   !.victoryPoints = @ + 2],
                !.board.vertices[vertexId].building = "city"],
            "build", playerId))

buildCity(st, playerId, vertexId) ==
    LET i == getPlayerById(st, playerId) IN
    checkVictory(
        addLogEntry(
            [st EXCEPT
                !.players[i] = [deductResources(@, BUILDING_COSTS.city) EXCEPT
                                   !.settlementsBuilt = @ - 1,
                                   !.citiesBuilt = @ + 1,
                                   !.victoryPoints = @ + 1],
                !.board.vertices[vertexId].building = "city"],
            "build", playerId))

-----------------------------------------------------------------------------
(* game.ts: robber *)

Min(S) == CHOOSE x \in S : \A y \in S : x <= y

\* board.hexes.find(h => h.hasRobber): the first such hex, 0 when there is none
currentRobberHex(st) ==
    LET robbed == {h \in HexIds : st.board.hexes[h].hasRobber}
    IN  IF robbed = {} THEN 0 ELSE Min(robbed)

\* moveRobber that leaves the robber on the hex it came from as well
moveRobberLeavesOld(st, hexId) ==
    addLogEntry([st EXCEPT !.board.hexes[hexId].hasRobber = TRUE],
                "robber", getCurrentPlayer(st).id)

\* clears the flag of the first hex that has it, then sets hexId's
moveRobber(st, hexId) ==
    LET cleared == IF currentRobberHex(st) = 0 THEN st
                   ELSE [st EXCEPT !.board.hexes[currentRobberHex(st)].hasRobber = FALSE]
    IN  addLogEntry([cleared EXCEPT !.board.hexes[hexId].hasRobber = TRUE],
                    "robber", getCurrentPlayer(st).id)

getPlayersToStealFrom(st, hexId) ==
    {i \in PlayerIdxs(st) :
        \E v \in getHexVertices(hexId) :
            /\ st.board.vertices[v].playerId # NoPlayer
            /\ st.board.vertices[v].playerId # getCurrentPlayer(st).id
            /\ st.board.vertices[v].playerId = st.players[i].id
            /\ getTotalResources(st.players[i]) > 0}

ResourceOrder == << "wood", "brick", "sheep", "wheat", "ore" >>

\* availableResources[k] (0-based): the target's cards laid out type by type
AvailableResourceAt(player, k) ==
    LET upTo(n) == SumOver([j \in 1..5 |-> player.resources[ResourceOrder[j]]], 1..n)
    IN  ResourceOrder[CHOOSE n \in 1..5 : upTo(n - 1) <= k /\ k < upTo(n)]

\* random is the index Math.floor(Math.random() * availableResources.length)
stealResource(st, targetPlayerId, random) ==
    IF ~HasPlayer(st, targetPlayerId) THEN st
    ELSE LET t == getPlayerById(st, targetPlayerId)
             c == st.currentPlayerIndex + 1
         IN  IF getTotalResources(st.players[t]) = 0 THEN st
             ELSE LET stolenResource == AvailableResourceAt(st.players[t], random)
                      taken == [st EXCEPT !.players[t].resources[stolenResource] = @ - 1]
                  IN  addLogEntry(
                          [taken EXCEPT !.players[c].resources[stolenResource] = @ + 1],
                          "robber", st.players[c].id)

\* getPlayersToDiscard that also flags a hand of exactly handLimit cards
getPlayersToDiscardAtLimit(st) ==
    SelectSeq(st.players, LAMBDA p : getTotalResources(p) >= st.settings.handLimit)

getPlayersToDiscard(st) ==
    SelectSeq(st.players, LAMBDA p : getTotalResources(p) > st.settings.handLimit)

SeqRemove(seq, x) == SelectSeq(seq, LAMBDA y : y # x)

InSeq(seq, x) == \E k \in DOMAIN seq : seq[k] = x

\* canDiscardHalfResources without the test of the total
canDiscardAnyTotal(st, playerId, resources) ==
    /\ HasPlayer(st, playerId)
    /\ hasResources(st.players[getPlayerById(st, playerId)], resources)

canDiscardHalfResources(st, playerId, resources) ==
    /\ HasPlayer(st, playerId)
    /\ SumOver(resources, ResourceTypes)
         = getTotalResources(st.players[getPlayerById(st, playerId)]) \div 2
    /\ hasResources(st.players[getPlayerById(st, playerId)], resources)

discardHalfResources(st, playerId, resources) ==
    [addLogEntry(
        [st EXCEPT !.players[getPlayerById(st, playerId)] = deductResources(@, resources)],
        "robber", playerId)
     EXCEPT !.discardingPlayerIds = SeqRemove(@, playerId)]

-----------------------------------------------------------------------------
(* game.ts: trading *)

\* vertex.harborId as the harbor's position in board.harbors, 0 for none; when
\* two harbors name one vertex the later one has overwritten the earlier
HarborOf(vertexId) ==
    LET marking == {h \in DOMAIN Harbors :
                        \E k \in 1..2 : Harbors[h].vertexIds[k] = vertexId}
    IN  IF marking = {} THEN 0 ELSE Max(marking)

\* board.ts getPlayerHarbors: board.harbors filtered, in board order
getPlayerHarbors(board, playerId) ==
    LET harborIds == {HarborOf(v) : v \in {x \in VertexIds :
                                             /\ board.vertices[x].playerId = playerId
                                             /\ board.vertices[x].building # "null"
                                             /\ HarborOf(x) # 0}}
        kept == SelectSeq([h \in DOMAIN Harbors |-> h], LAMBDA h : h \in harborIds)
    IN  [k \in 1..Len(kept) |-> Harbors[kept[k]]]

\* ApplyHarbor with a generic harbor setting every ratio to 3
ApplyHarborGenericAssigns(ratios, harbor) ==
    IF harbor.type = "3:1"
    THEN [r \in ResourceTypes |-> 3]
    ELSE [r \in ResourceTypes |->
            IF r = harbor.type /\ ratios[r] > 2 THEN 2 ELSE ratios[r]]

\* the body of the loop over the player's harbors
ApplyHarbor(ratios, harbor) ==
    IF harbor.type = "3:1"
    THEN [r \in ResourceTypes |-> IF ratios[r] > 3 THEN 3 ELSE ratios[r]]
    ELSE [r \in ResourceTypes |->
            IF r = harbor.type /\ ratios[r] > 2 THEN 2 ELSE ratios[r]]

\* the loop of getPlayerTradeRatios from position i of harbors
RECURSIVE TradeRatioScan(_, _, _)
TradeRatioScan(harbors, i, ratios) ==
    IF i > Len(harbors) THEN ratios
    ELSE TradeRatioScan(harbors, i + 1, ApplyHarbor(ratios, harbors[i]))

getPlayerTradeRatios(st, playerId) ==
    TradeRatioScan(getPlayerHarbors(st.board, playerId), 1,
                   [r \in ResourceTypes |-> 4])

\* totalGiving of bankTrade in twelfths (ratios are 2, 3 or 4, so amount / ratio
\* is a whole number of twelfths); only amounts above 0 are counted
TotalGivingTwelfths(ratios, giving) ==
    SumOver([r \in ResourceTypes |->
                IF giving[r] > 0 THEN giving[r] * (12 \div ratios[r]) ELSE 0],
            ResourceTypes)

\* totalReceiving of bankTrade; only amounts above 0 are counted
TotalReceiving(receiving) ==
    SumOver([r \in ResourceTypes |-> IF receiving[r] > 0 THEN receiving[r] ELSE 0],
            ResourceTypes)

\* canBankTrade with every resource at four for one
canBankTradeAtFour(st, playerId, giving, receiving) ==
    /\ HasPlayer(st, playerId)
    /\ TotalGivingTwelfths([r \in ResourceTypes |-> 4], giving)
         = 12 * TotalReceiving(receiving)
    /\ hasResources(st.players[getPlayerById(st, playerId)], giving)

\* the checks of bankTrade; |totalGiving - totalReceiving| > 0.001 fails exactly
\* when the two differ, as they differ by a multiple of 1/12
canBankTrade(st, playerId, giving, receiving) ==
    /\ HasPlayer(st, playerId)
    /\ TotalGivingTwelfths(getPlayerTradeRatios(st, playerId), giving)
         = 12 * TotalReceiving(receiving)
    /\ hasResources(st.players[getPlayerById(st, playerId)], giving)

bankTrade(st, playerId, giving, receiving) ==
    LET i == getPlayerById(st, playerId) IN
    addLogEntry(
        [st EXCEPT !.players[i] = addResources(deductResources(@, giving), receiving)],
        "trade", playerId)

canCreateTradeOffer(st, fromPlayerId, offering) ==
    /\ HasPlayer(st, fromPlayerId)
    /\ hasResources(st.players[getPlayerById(st, fromPlayerId)], offering)

createTradeOffer(st, fromPlayerId, toPlayerId, offering, requesting) ==
    [st EXCEPT !.tradeOffer =
        [fromPlayerId |-> fromPlayerId, toPlayerId |-> toPlayerId,
         offering |-> offering, requesting |-> requesting, status |-> "pending"]]

\* acceptTrade without the test that the target holds what is requested
acceptTradeUnchecked(st) ==
    LET offer == st.tradeOffer IN
    IF offer = NoOffer \/ offer.status # "pending" THEN st
    ELSE IF ~HasPlayer(st, offer.fromPlayerId) THEN st
    ELSE IF offer.toPlayerId # NoPlayer /\ HasPlayer(st, offer.toPlayerId)
         THEN LET f == getPlayerById(st, offer.fromPlayerId)
                  t == getPlayerById(st, offer.toPlayerId)
              IN  IF ~hasResources(st.players[f], offer.offering) THEN st
                  ELSE LET paid ==
                               [st EXCEPT !.players[f] =
                                   addResources(deductResources(@, offer.offering),
                                                offer.requesting)]
                           swapped ==
                               [paid EXCEPT !.players[t] =
                                   addResources(deductResources(@, offer.requesting),
                                                offer.offering)]
                       IN  [addLogEntry(swapped, "trade", offer.fromPlayerId)
                                EXCEPT !.tradeOffer = NoOffer]
         ELSE [st EXCEPT !.tradeOffer = NoOffer]

\* acceptTrade: returns without a change when a check fails; with no known
\* target player the offer is closed without an exchange
acceptTrade(st) ==
    LET offer == st.tradeOffer IN
    IF offer = NoOffer \/ offer.status # "pending" THEN st
    ELSE IF ~HasPlayer(st, offer.fromPlayerId) THEN st
    ELSE IF offer.toPlayerId # NoPlayer /\ HasPlayer(st, offer.toPlayerId)
         THEN LET f == getPlayerById(st, offer.fromPlayerId)
                  t == getPlayerById(st, offer.toPlayerId)
              IN  IF ~hasResources(st.players[t], offer.requesting) THEN st
                  ELSE IF ~hasResources(st.players[f], offer.offering) THEN st
                  ELSE LET paid ==
                               [st EXCEPT !.players[f] =
                                   addResources(deductResources(@, offer.offering),
                                                offer.requesting)]
                           swapped ==
                               [paid EXCEPT !.players[t] =
                                   addResources(deductResources(@, offer.requesting),
                                                offer.offering)]
                       IN  [addLogEntry(swapped, "trade", offer.fromPlayerId)
                                EXCEPT !.tradeOffer = NoOffer]
         ELSE [st EXCEPT !.tradeOffer = NoOffer]

-----------------------------------------------------------------------------
(* game.ts: development cards, end of turn *)

\* canBuyDevCard without the test of the resources
canBuyDevCardFree(st, playerId) ==
    /\ HasPlayer(st, playerId)
    /\ Len(st.devCardDeck) # 0

canBuyDevCard(st, playerId) ==
    /\ HasPlayer(st, playerId)
    /\ Len(st.devCardDeck) # 0
    /\ hasResources(st.players[getPlayerById(st, playerId)], BUILDING_COSTS.devCard)

\* buyDevCard that leaves the card as it lay in the deck, playable at once
buyDevCardPlayable(st, playerId) ==
    LET i == getPlayerById(st, playerId)
        card == st.devCardDeck[Len(st.devCardDeck)]
    IN  checkVictory(
            addLogEntry(
                [st EXCEPT
                    !.players[i] = [deductResources(@, BUILDING_COSTS.devCard) EXCEPT
                                       !.devCards = Append(@, card)],
                    !.devCardDeck = SubSeq(@, 1, Len(@) - 1)],
                "devcard", playerId))

\* devCardDeck.pop() takes the last card of the array
buyDevCard(st, playerId) ==
    LET i == getPlayerById(st, playerId)
        card == [st.devCardDeck[Len(st.devCardDeck)] EXCEPT !.boughtThisTurn = TRUE]
    IN  checkVictory(
            addLogEntry(
                [st EXCEPT
                    !.players[i] = [deductResources(@, BUILDING_COSTS.devCard) EXCEPT
                                       !.devCards = Append(@, card)],
                    !.devCardDeck = SubSeq(@, 1, Len(@) - 1)],
                "devcard", playerId))

Playable(player, cardType) ==
    {k \in DOMAIN player.devCards :
        player.devCards[k].type = cardType /\ ~player.devCards[k].boughtThisTurn}

\* canPlayDevCard without the test of devCardPlayedThisTurn
canPlayDevCardAgain(st, playerId, cardType) ==
    /\ HasPlayer(st, playerId)
    /\ Playable(st.players[getPlayerById(st, playerId)], cardType) # {}
    /\ cardType # "victory_point"

canPlayDevCard(st, playerId, cardType) ==
    /\ HasPlayer(st, playerId)
    /\ ~(st.players[getPlayerById(st, playerId)].devCardPlayedThisTurn
         /\ cardType # "victory_point")
    /\ Playable(st.players[getPlayerById(st, playerId)], cardType) # {}
    /\ cardType # "victory_point"

\* devCards.splice(findIndex(type and not bought this turn), 1)
RemoveCard(devCards, cardType) ==
    LET cardIndex == CHOOSE k \in DOMAIN devCards :
                        /\ devCards[k].type = cardType /\ ~devCards[k].boughtThisTurn
                        /\ \A j \in 1..(k - 1) :
                              ~(devCards[j].type = cardType /\ ~devCards[j].boughtThisTurn)
    IN  SubSeq(devCards, 1, cardIndex - 1) \o SubSeq(devCards, cardIndex + 1, Len(devCards))

playKnight(st, playerId) ==
    LET i == getPlayerById(st, playerId)
        played == [st EXCEPT !.players[i].devCards = RemoveCard(@, "knight"),
                             !.players[i].knightsPlayed = @ + 1,
                             !.players[i].devCardPlayedThisTurn = TRUE]
    IN  [addLogEntry(updateLargestArmyBonus(played), "devcard", playerId) EXCEPT
            !.phaseBeforeRobber = IF st.phase = "roll" THEN "roll" ELSE "main",
            !.phase = "robber_move"]

playRoadBuilding(st, playerId) ==
    LET i == getPlayerById(st, playerId) IN
    addLogEntry(
        [st EXCEPT !.players[i].devCards = RemoveCard(@, "road_building"),
                   !.players[i].devCardPlayedThisTurn = TRUE,
                   !.roadBuildingRoadsLeft = 2,
                   !.phase = "road_building"],
        "devcard", playerId)

playYearOfPlenty(st, playerId, resource1, resource2) ==
    LET i == getPlayerById(st, playerId)
        played == [st EXCEPT !.players[i].devCards = RemoveCard(@, "year_of_plenty"),
                             !.players[i].devCardPlayedThisTurn = TRUE]
        first == [played EXCEPT !.players[i].resources[resource1] = @ + 1]
    IN  addLogEntry([first EXCEPT !.players[i].resources[resource2] = @ + 1],
                    "devcard", playerId)

\* playMonopoly that leaves the other players their cards
playMonopolyCopies(st, playerId, resource) ==
    LET i == getPlayerById(st, playerId)
        others == {j \in PlayerIdxs(st) : st.players[j].id # playerId}
        stolen == SumOver([j \in others |-> st.players[j].resources[resource]], others)
        played == [st EXCEPT !.players[i].devCards = RemoveCard(@, "monopoly"),
                             !.players[i].devCardPlayedThisTurn = TRUE]
    IN  addLogEntry([played EXCEPT !.players[i].resources[resource] = @ + stolen],
                    "devcard", playerId)

\* the loop of playMonopoly: every player whose id is not playerId loses all of
\* the resource, and the sum goes to the player who played the card
playMonopoly(st, playerId, resource) ==
    LET i == getPlayerById(st, playerId)
        others == {j \in PlayerIdxs(st) : st.players[j].id # playerId}
        stolen == SumOver([j \in others |-> st.players[j].resources[resource]], others)
        played == [st EXCEPT !.players[i].devCards = RemoveCard(@, "monopoly"),
                             !.players[i].devCardPlayedThisTurn = TRUE]
        emptied == [played EXCEPT !.players =
                       [j \in PlayerIdxs(st) |->
                           IF j \in others
                           THEN [played.players[j] EXCEPT !.resources[resource] = 0]
                           ELSE played.players[j]]]
    IN  addLogEntry([emptied EXCEPT !.players[i].resources[resource] = @ + stolen],
                    "devcard", playerId)

canBuildRoadFromRoadBuilding(st, playerId, edgeId) ==
    /\ st.phase = "road_building"
    /\ st.roadBuildingRoadsLeft > 0
    /\ getCurrentPlayer(st).id = playerId
    /\ canBuildRoad(st, playerId, edgeId, TRUE)

\* buildRoadFromRoadBuilding that charges the cost of a road
buildRoadFromRoadBuildingPaid(st, playerId, edgeId) ==
    LET built == buildRoad(st, playerId, edgeId, FALSE) IN
    [built EXCEPT !.roadBuildingRoadsLeft = @ - 1,
                  !.phase = IF st.roadBuildingRoadsLeft - 1 = 0 THEN "main" ELSE @]

buildRoadFromRoadBuilding(st, playerId, edgeId) ==
    LET built == buildRoad(st, playerId, edgeId, TRUE) IN
    [built EXCEPT !.roadBuildingRoadsLeft = @ - 1,
                  !.phase = IF built.roadBuildingRoadsLeft - 1 = 0 THEN "main" ELSE @]

\* endTurn that leaves devCardPlayedThisTurn as it is
endTurnKeepsPlayed(st) ==
    LET c == st.currentPlayerIndex + 1 IN
    addLogEntry(
    [st EXCEPT
        !.players[c].devCards = [k \in DOMAIN @ |-> [@[k] EXCEPT !.boughtThisTurn = FALSE]],
        !.currentPlayerIndex = (@ + 1) % Len(st.players),
        !.phase = "roll",
        !.tradeOffer = NoOffer,
        !.turnNumber = @ + 1],
    "system", NoPlayer)

endTurn(st) ==
    LET c == st.currentPlayerIndex + 1 IN
    addLogEntry(
    [st EXCEPT
        !.players[c].devCardPlayedThisTurn = FALSE,
        !.players[c].devCards = [k \in DOMAIN @ |-> [@[k] EXCEPT !.boughtThisTurn = FALSE]],
        !.currentPlayerIndex = (@ + 1) % Len(st.players),
        !.phase = "roll",
        !.tradeOffer = NoOffer,
        !.turnNumber = @ + 1],
    "system", NoPlayer)

-----------------------------------------------------------------------------
(* rooms.ts: leaving and rejoining a started room.  A person is known by    *)
(* name; player i of the game was created with name i.                      *)

\* joinRoom, room.started branch: a known name is let back in
joinRoomStarted(st, playerName) ==
    IF \E i \in PlayerIdxs(st) : st.players[i].name = playerName
    THEN [st EXCEPT !.players[CHOOSE i \in PlayerIdxs(st) :
                                 st.players[i].name = playerName].connected = TRUE]
    ELSE st

\* leaveRoom, game in progress: the game player whose id is the socket's
leaveRoomStarted(st, playerId) ==
    IF HasPlayer(st, playerId)
    THEN [st EXCEPT !.players[getPlayerById(st, playerId)].connected = FALSE]
    ELSE st

-----------------------------------------------------------------------------
(* handlers.ts: one action per socket handler; sid is socket.id *)

Room == <<playerToRoom, seatSocket, socketsOpened>>

\* the gate most handlers share: the socket is mapped to the room and is the
\* current player's id
IsCurrent(sid) ==
    /\ sid \in playerToRoom
    /\ getCurrentPlayer(state).id = sid

OnPlaceInitialSettlement(sid, vertexId) ==
    /\ state.phase = "setup_settlement"
    /\ IsCurrent(sid)
    /\ canPlaceInitialSettlement(state, sid, vertexId)
    /\ state' = placeInitialSettlement(state, sid, vertexId)
    /\ secondPlaced' = IF state.setupRound = 2
                       THEN [secondPlaced EXCEPT ![state.currentPlayerIndex + 1] = vertexId]
                       ELSE secondPlaced
    /\ UNCHANGED Room

OnPlaceInitialRoad(sid, edgeId) ==
    /\ state.phase = "setup_road"
    /\ IsCurrent(sid)
    /\ canPlaceInitialRoad(state, sid, edgeId)
    /\ state' = placeInitialRoad(state, sid, edgeId)
    /\ UNCHANGED <<Room, secondPlaced>>

OnRollDice(sid, die1, die2) ==
    /\ IsCurrent(sid)
    /\ state.phase = "roll"
    /\ state' =
        LET rolled == addLogEntry(rollDice(state, die1, die2), "roll", sid)
            total == die1 + die2
            playersToDiscard == getPlayersToDiscard(rolled)
        IN  IF total = 7
            THEN IF Len(playersToDiscard) > 0
                 THEN [rolled EXCEPT
                         !.phase = "robber_discard",
                         !.discardingPlayerIds =
                            [k \in 1..Len(playersToDiscard) |-> playersToDiscard[k].id],
                         !.phaseBeforeRobber = "main"]
                 ELSE [rolled EXCEPT !.phase = "robber_move", !.phaseBeforeRobber = "main"]
            ELSE [distributeResources(rolled, total) EXCEPT !.phase = "main"]
    /\ UNCHANGED <<Room, secondPlaced>>

OnBuildRoad(sid, edgeId) ==
    /\ IsCurrent(sid)
    /\ IF state.phase = "road_building"
       THEN /\ canBuildRoadFromRoadBuilding(state, sid, edgeId)
            /\ state' = buildRoadFromRoadBuilding(state, sid, edgeId)
       ELSE /\ state.phase = "main"
            /\ canBuildRoad(state, sid, edgeId, FALSE)
            /\ state' = buildRoad(state, sid, edgeId, FALSE)
    /\ UNCHANGED <<Room, secondPlaced>>

OnBuildSettlement(sid, vertexId) ==
    /\ IsCurrent(sid)
    /\ state.phase = "main"
    /\ canBuildSettlement(state, sid, vertexId)
    /\ state' = buildSettlement(state, sid, vertexId)
    /\ UNCHANGED <<Room, secondPlaced>>

OnBuildCity(sid, vertexId) ==
    /\ IsCurrent(sid)
    /\ state.phase = "main"
    /\ canBuildCity(state, sid, vertexId)
    /\ state' = buildCity(state, sid, vertexId)
    /\ UNCHANGED <<Room, secondPlaced>>

\* ResumePhase that always resumes in 'main'
ResumePhaseMain(st) ==
    [st EXCEPT !.phase = "main", !.phaseBeforeRobber = "null"]

\* phase after the robber sequence: state.phaseBeforeRobber || 'main'
ResumePhase(st) ==
    [st EXCEPT !.phase = IF st.phaseBeforeRobber # "null" THEN st.phaseBeforeRobber
                         ELSE "main",
               !.phaseBeforeRobber = "null"]

\* OnMoveRobber accepted while discards are pending as well
OnMoveRobberWhileDiscarding(sid, hexId) ==
    /\ IsCurrent(sid)
    /\ state.phase \in {"robber_move", "robber_discard"}
    /\ currentRobberHex(state) # hexId
    /\ hexId \in HexIds
    /\ state' =
        LET moved == moveRobber(state, hexId) IN
        IF getPlayersToStealFrom(moved, hexId) # {}
        THEN [moved EXCEPT !.phase = "robber_steal"]
        ELSE ResumePhase(moved)
    /\ UNCHANGED <<Room, secondPlaced>>

OnMoveRobber(sid, hexId) ==
    /\ IsCurrent(sid)
    /\ state.phase = "robber_move"
    /\ currentRobberHex(state) # hexId
    /\ hexId \in HexIds
    /\ state' =
        LET moved == moveRobber(state, hexId) IN
        IF getPlayersToStealFrom(moved, hexId) # {}
        THEN [moved EXCEPT !.phase = "robber_steal"]
        ELSE ResumePhase(moved)
    /\ UNCHANGED <<Room, secondPlaced>>

OnStealResource(sid, targetPlayerId, random) ==
    /\ IsCurrent(sid)
    /\ state.phase = "robber_steal"
    /\ state' = ResumePhase(stealResource(state, targetPlayerId, random))
    /\ UNCHANGED <<Room, secondPlaced>>

\* OnDiscardResources without the discardingPlayerIds check
OnDiscardResourcesUnflagged(sid, resources) ==
    /\ sid \in playerToRoom
    /\ state.phase = "robber_discard"
    /\ canDiscardHalfResources(state, sid, resources)
    /\ state' =
        LET discarded == discardHalfResources(state, sid, resources) IN
        IF Len(discarded.discardingPlayerIds) = 0
        THEN [discarded EXCEPT !.phase = "robber_move"]
        ELSE discarded
    /\ UNCHANGED <<Room, secondPlaced>>

OnDiscardResources(sid, resources) ==
    /\ sid \in playerToRoom
    /\ state.phase = "robber_discard"
    /\ InSeq(state.discardingPlayerIds, sid)
    /\ canDiscardHalfResources(state, sid, resources)
    /\ state' =
        LET discarded == discardHalfResources(state, sid, resources) IN
        IF Len(discarded.discardingPlayerIds) = 0
        THEN [discarded EXCEPT !.phase = "robber_move"]
        ELSE discarded
    /\ UNCHANGED <<Room, secondPlaced>>

OnBuyDevCard(sid) ==
    /\ IsCurrent(sid)
    /\ state.phase = "main"
    /\ canBuyDevCard(state, sid)
    /\ state' = buyDevCard(state, sid)
    /\ UNCHANGED <<Room, secondPlaced>>

OnPlayKnight(sid) ==
    /\ IsCurrent(sid)
    /\ state.phase \in {"main", "roll"}
    /\ canPlayDevCard(state, sid, "knight")
    /\ state' = playKnight(state, sid)
    /\ UNCHANGED <<Room, secondPlaced>>

OnPlayRoadBuilding(sid) ==
    /\ IsCurrent(sid)
    /\ state.phase = "main"
    /\ canPlayDevCard(state, sid, "road_building")
    /\ state' = playRoadBuilding(state, sid)
    /\ UNCHANGED <<Room, secondPlaced>>

\* OnProposeTrade that leaves the phase 'main'
OnProposeTradeInMain(sid, toPlayerId, offering, requesting) ==
    /\ IsCurrent(sid)
    /\ state.phase = "main"
    /\ canCreateTradeOffer(state, sid, offering)
    /\ state' = createTradeOffer(state, sid, toPlayerId, offering, requesting)
    /\ UNCHANGED <<Room, secondPlaced>>

\* createTradeOffer is given whatever toPlayerId the client sent
OnProposeTrade(sid, toPlayerId, offering, requesting) ==
    /\ IsCurrent(sid)
    /\ state.phase = "main"
    /\ canCreateTradeOffer(state, sid, offering)
    /\ state' = [createTradeOffer(state, sid, toPlayerId, offering, requesting)
                    EXCEPT !.phase = "trade"]
    /\ UNCHANGED <<Room, secondPlaced>>

\* whatever acceptTrade returns, the offer is cleared and the phase is 'main'
OnRespondToTrade(sid, accept) ==
    /\ sid \in playerToRoom
    /\ state.phase = "trade"
    /\ state.tradeOffer # NoOffer
    /\ state.tradeOffer.toPlayerId = sid
    /\ state' = [(IF accept THEN acceptTrade(state)
                  ELSE addLogEntry(state, "trade", sid)) EXCEPT
                    !.tradeOffer = NoOffer,
                    !.phase = "main"]
    /\ UNCHANGED <<Room, secondPlaced>>

OnCancelTrade(sid) ==
    /\ sid \in playerToRoom
    /\ state.phase = "trade"
    /\ state.tradeOffer # NoOffer
    /\ state.tradeOffer.fromPlayerId = sid
    /\ state' = [state EXCEPT !.tradeOffer = NoOffer, !.phase = "main"]
    /\ UNCHANGED <<Room, secondPlaced>>

\* OnBankTrade without the phase check
OnBankTradeAnyPhase(sid, giving, receiving) ==
    /\ IsCurrent(sid)
    /\ canBankTrade(state, sid, giving, receiving)
    /\ state' = bankTrade(state, sid, giving, receiving)
    /\ UNCHANGED <<Room, secondPlaced>>

OnBankTrade(sid, giving, receiving) ==
    /\ IsCurrent(sid)
    /\ state.phase = "main"
    /\ canBankTrade(state, sid, giving, receiving)
    /\ state' = bankTrade(state, sid, giving, receiving)
    /\ UNCHANGED <<Room, secondPlaced>>

OnPlayYearOfPlenty(sid, resource1, resource2) ==
    /\ IsCurrent(sid)
    /\ state.phase = "main"
    /\ canPlayDevCard(state, sid, "year_of_plenty")
    /\ state' = playYearOfPlenty(state, sid, resource1, resource2)
    /\ UNCHANGED <<Room, secondPlaced>>

OnPlayMonopoly(sid, resource) ==
    /\ IsCurrent(sid)
    /\ state.phase = "main"
    /\ canPlayDevCard(state, sid, "monopoly")
    /\ state' = playMonopoly(state, sid, resource)
    /\ UNCHANGED <<Room, secondPlaced>>

\* OnEndTurn accepted before the roll as well
OnEndTurnBeforeRoll(sid) ==
    /\ IsCurrent(sid)
    /\ state.phase \in {"main", "roll"}
    /\ state' = endTurn(state)
    /\ UNCHANGED <<Room, secondPlaced>>

OnEndTurn(sid) ==
    /\ IsCurrent(sid)
    /\ state.phase = "main"
    /\ state' = endTurn(state)
    /\ UNCHANGED <<Room, secondPlaced>>

\* socket 'disconnect' -> handleDisconnect -> leaveRoom(socket.id); the socket
\* is gone afterwards
OnDisconnect(seat) ==
    /\ seatSocket[seat] # 0
    /\ playerToRoom' = playerToRoom \ {seatSocket[seat]}
    /\ state' = IF seatSocket[seat] \in playerToRoom
                THEN leaveRoomStarted(state, seatSocket[seat])
                ELSE state
    /\ seatSocket' = [seatSocket EXCEPT ![seat] = 0]
    /\ UNCHANGED <<socketsOpened, secondPlaced>>

\* socket 'leaveRoom' -> handleDisconnect -> leaveRoom(socket.id); the socket
\* stays open
OnLeaveRoom(seat) ==
    /\ seatSocket[seat] \in playerToRoom
    /\ playerToRoom' = playerToRoom \ {seatSocket[seat]}
    /\ state' = leaveRoomStarted(state, seatSocket[seat])
    /\ UNCHANGED <<seatSocket, socketsOpened, secondPlaced>>

\* io.on('connection'): a person without a socket connects; every connection
\* has a socket.id of its own
OnConnection(seat) ==
    /\ seatSocket[seat] = 0
    /\ socketsOpened' = socketsOpened + 1
    /\ seatSocket' = [seatSocket EXCEPT ![seat] = socketsOpened + 1]
    /\ UNCHANGED <<state, playerToRoom, secondPlaced>>

\* socket 'joinRoom' with the room's code and the person's own name, in a
\* started room: joinRoom(roomCode, socket.id, playerName)
OnJoinRoom(seat) ==
    /\ seatSocket[seat] # 0
    /\ \E i \in PlayerIdxs(state) : state.players[i].name = seat
    /\ playerToRoom' = playerToRoom \cup {seatSocket[seat]}
    /\ state' = joinRoomStarted(state, seat)
    /\ UNCHANGED <<seatSocket, socketsOpened, secondPlaced>>

-----------------------------------------------------------------------------
(* Initial states: handlers.ts startGame -> createGameState.  The board's   *)
(* shuffles and the deck's shuffle are drawn from the fixed reorderings     *)
(* below; the first n sockets are the n players, in room order.             *)

\* one outcome of shuffle(TERRAIN_DISTRIBUTION), by hex
ShuffledTerrains ==
    << "wood", "ore", "brick", "desert", "wood", "sheep", "ore",
       "wood", "sheep", "wheat", "sheep", "wheat", "brick", "brick",
       "wheat", "ore", "sheep", "wheat", "wood" >>

\* one outcome of shuffle(NUMBER_DISTRIBUTION), in the order it is handed out
ShuffledNumbers ==
    << 6, 3, 6, 8, 5, 9, 2, 3, 4, 5, 9, 10, 8, 4, 10, 11, 11, 12 >>

\* one outcome of shuffle(DEV_CARD_DISTRIBUTION); the last card is drawn first
ShuffledDeck ==
    [i \in 1..25 |->
        IF i <= 4 THEN "victory_point"
        ELSE IF i <= 6 THEN "monopoly"
        ELSE IF i <= 8 THEN "year_of_plenty"
        ELSE IF i <= 10 THEN "road_building"
        ELSE IF i <= 17 THEN "knight"
        ELSE IF i = 18 THEN "victory_point"
        ELSE "knight"]

InitGameOn(n, settings, terrains, numbers, deck) ==
    /\ IsShuffleOf(terrains, TERRAIN_DISTRIBUTION)
    /\ IsShuffleOf(numbers, NUMBER_DISTRIBUTION)
    /\ IsShuffleOf(deck, DEV_CARD_DISTRIBUTION)
    /\ state = addLogEntry(
                   addLogEntry(
                       createGameState([i \in 1..n |-> i], settings, terrains, numbers, deck),
                       "system", NoPlayer),
                   "system", NoPlayer)
    /\ playerToRoom = 1..n
    /\ seatSocket = [i \in 1..n |-> i]
    /\ socketsOpened = n
    /\ secondPlaced = [i \in 1..n |-> 0]

InitGame(n, settings) ==
    InitGameOn(n, settings, ShuffledTerrains, ShuffledNumbers, ShuffledDeck)

-----------------------------------------------------------------------------
(* Spec: the setup draft for 2, 3 and 4 players and the first turns, with   *)
(* default settings.                                                        *)

MinPlayers == 2
MaxPlayers == 4

\* turns played before the model stops ending turns
MaxTurns == 2

\* the vertices the client on each socket names in setup, and the edges any
\* client names (0: an id not on the board)
SetupVertices == << {0, 1, 3, 5}, {5, 8, 12}, {12, 16, 18}, {18, 21, 1} >>
SetupEdges == {0, 1, 2, 5, 8, 13, 18, 22, 25}

\* dice outcomes: totals 6, 7 and 8
Dice == {<<3, 3>>, <<3, 4>>, <<4, 4>>}

\* hexes clients name when moving the robber (0: not on the board)
RobberHexes == {0, 1, 4, 5}

Sockets == 1..MaxPlayers

Init ==
    \E n \in MinPlayers..MaxPlayers : InitGame(n, getDefaultGameSettings(n))

Next ==
    \E sid \in Sockets :
        \/ \E v \in SetupVertices[sid] : OnPlaceInitialSettlement(sid, v)
        \/ \E e \in SetupEdges : OnPlaceInitialRoad(sid, e)
        \/ \E d \in Dice : OnRollDice(sid, d[1], d[2])
        \/ \E h \in RobberHexes : OnMoveRobber(sid, h)
        \/ \E t \in 0..MaxPlayers, random \in 0..2 :
              /\ HasPlayer(state, t) =>
                    random < getTotalResources(state.players[getPlayerById(state, t)])
                    \/ random = 0
              /\ OnStealResource(sid, t, random)
        \/ state.turnNumber < MaxTurns /\ OnEndTurn(sid)

Spec == Init /\ [][Next]_vars

-----------------------------------------------------------------------------
(* Properties of the setup draft and of the robber, checked under Spec *)

\* the player index the k-th visit (k from 0) of an n-player draft goes to
VisitOrder(n, k) == IF k < n THEN k ELSE 2 * n - 1 - k

\* how many of the first k visits go to player index j
VisitsTo(n, j, k) == Cardinality({m \in 0..(k - 1) : VisitOrder(n, m) = j})

SettlementsOf(st, i) ==
    Cardinality({v \in VertexIds : st.board.vertices[v].playerId = st.players[i].id})

RoadsOf(st, i) ==
    Cardinality({e \in EdgeIds : st.board.edges[e].playerId = st.players[i].id})

RoadsPlaced(st) == Cardinality({e \in EdgeIds : st.board.edges[e].road})

InSetup(st) == st.phase \in {"setup_settlement", "setup_road"}

\* C9: with n players the k-th visit of the setup draft goes to player
\* 0,1,..,n-1,n-1,..,1,0; in a visit the visited player, and nobody else, places
\* one settlement and then one road; once 2n roads are placed the phase is no
\* longer a setup phase and every player has 2 settlements and 2 roads.
C9_SetupOrder ==
    LET n == Len(state.players)
        k == RoadsPlaced(state)
    IN  IF InSetup(state)
        THEN /\ k < 2 * n
             /\ state.currentPlayerIndex = VisitOrder(n, k)
             /\ \A i \in 1..n :
                   /\ RoadsOf(state, i) = VisitsTo(n, i - 1, k)
                   /\ SettlementsOf(state, i) =
                         VisitsTo(n, i - 1, IF state.phase = "setup_road" THEN k + 1 ELSE k)
        ELSE /\ k = 2 * n
             /\ \A i \in 1..n : RoadsOf(state, i) = 2 /\ SettlementsOf(state, i) = 2

\* C9: the step that places the 2n-th road ends in phase 'roll'
C9_SetupEndsInRoll ==
    [][InSetup(state) /\ ~InSetup(state') => state'.phase = "roll"]_vars

\* C9: the setup draft visits players 0,..,n-1,n-1,..,0, one settlement then
\* one road per visit by the visited player only, and ends in phase 'roll'
C9_SetupDraft == []C9_SetupOrder /\ C9_SetupEndsInRoll

C9_Witness ==
    /\ Len(state.players) = 4
    /\ state.phase = "roll"
    /\ state.turnNumber = 1
    /\ RoadsPlaced(state) = 8

\* the hand one settlement on vertexId pays at the end of setup
StartingHand(st, vertexId) ==
    [r \in ResourceTypes |->
        Cardinality({h \in VertexHexIds[vertexId] :
                        TERRAIN_TO_RESOURCE(st.board.hexes[h].terrain) = r})]

SetupJustCompleted(st) ==
    st.phase = "roll" /\ st.turnNumber = 1 /\ st.lastDiceRoll = << >>

\* C2: when setup completes each player holds exactly one card per non-desert
\* hex around the settlement that player placed in round 2, the phase is 'roll'
\* and the current player index is 0.
C2_StartingResources ==
    SetupJustCompleted(state) =>
        /\ state.currentPlayerIndex = 0
        /\ \A i \in PlayerIdxs(state) :
              state.players[i].resources = StartingHand(state, secondPlaced[i])

\* the targets a steal may name: getPlayersToStealFrom at the robber's hex
ValidStealTargets(st) == getPlayersToStealFrom(st, currentRobberHex(st))

\* one card of some type went from player index t to the current player
CardMoved(st, stNext, t) ==
    LET c == st.currentPlayerIndex + 1 IN
    \E r \in ResourceTypes :
        /\ stNext.players[t].resources = [st.players[t].resources EXCEPT ![r] = @ - 1]
        /\ stNext.players[c].resources = [st.players[c].resources EXCEPT ![r] = @ + 1]

\* C8: the state leaves phase 'robber_steal' only by a steal that moves one card
\* to the current player from another player who has a building on the robber's
\* hex and holds a card; any other steal request changes nothing.
C8_StealOnlyFromValidTarget ==
    [][state.phase = "robber_steal" /\ state' # state =>
          \E t \in ValidStealTargets(state) : CardMoved(state, state', t)]_vars

-----------------------------------------------------------------------------
(* SpecRoads: a two-player game in which player 1 settles vertices 18 and   *)
(* 21 and player 2 vertices 1 and 3, and both then build roads and          *)
(* settlements from what totals 4, 5, 6 and 8 produce.                      *)

\* turns played before the model stops ending turns
RoadsMaxTurns == 7

\* the vertex each socket's client names in setup round 1 and round 2
RoadsSetupVertices == << << {18}, {21, 19} >>, << {1}, {3, 2} >> >>
RoadsSetupEdges == {22, 25, 1, 2}

RoadsDice == {<<2, 2>>, <<2, 3>>, <<3, 3>>, <<4, 4>>}

\* edges and vertices clients name in the main phase
RoadsEdges == {3, 4, 5, 18, 20, 21, 23}
RoadsVertices == {4, 5, 6, 16, 17, 19}

InitRoads == InitGame(2, getDefaultGameSettings(2))

NextRoads ==
    \E sid \in 1..2 :
        \/ \E v \in RoadsSetupVertices[sid][state.setupRound] :
              OnPlaceInitialSettlement(sid, v)
        \/ \E e \in RoadsSetupEdges : OnPlaceInitialRoad(sid, e)
        \/ \E d \in RoadsDice : OnRollDice(sid, d[1], d[2])
        \/ \E e \in RoadsEdges : OnBuildRoad(sid, e)
        \/ \E v \in RoadsVertices : OnBuildSettlement(sid, v)
        \/ state.turnNumber < RoadsMaxTurns /\ OnEndTurn(sid)

SpecRoads == InitRoads /\ [][NextRoads]_vars

\* the length calculateLongestRoad finds on the board for the player with this id
RoadLength(st, playerId) == calculateLongestRoad(st.board, playerId)

VictoryPointsOf(st, playerId) == st.players[getPlayerById(st, playerId)].victoryPoints

\* C3: the Longest Road bonus leaves its holder only for a player whose road
\* is then strictly longer than the holder's and at least 5; when a road build
\* leaves a challenger's length equal to the holder's, the holder and both
\* players' victory points stay as they were, whatever the list order.
C3_TieKeepsLongestRoad ==
    [][state.longestRoadPlayerId # NoPlayer =>
          LET holder == state.longestRoadPlayerId
              newHolder == state'.longestRoadPlayerId
          IN  /\ newHolder # holder =>
                    /\ newHolder # NoPlayer
                    /\ RoadLength(state', newHolder) > RoadLength(state', holder)
                    /\ RoadLength(state', newHolder) >= 5
              /\ \A i \in PlayerIdxs(state) :
                    (/\ state.players[i].id # holder
                     /\ state'.players[i].roadsBuilt = state.players[i].roadsBuilt + 1
                     /\ RoadLength(state', state.players[i].id) = RoadLength(state', holder))
                    => /\ newHolder = holder
                       /\ VictoryPointsOf(state', holder) = VictoryPointsOf(state, holder)
                       /\ state'.players[i].victoryPoints = state.players[i].victoryPoints]_vars

\* C5: whoever holds the Longest Road bonus has an unbroken chain of at least 5
\* roads on the board, so a holder whose chain an opponent's settlement cuts
\* below 5 no longer holds the bonus after that build.
C5_HolderHasFiveRoads ==
    state.longestRoadPlayerId # NoPlayer =>
        RoadLength(state, state.longestRoadPlayerId) >= 5

\* C10: no two vertices joined by an edge both hold a building
C10_DistanceRule ==
    \A e \in EdgeIds :
        \E v \in EdgeEnds(e) : state.board.vertices[v].building = "null"

\* player 1, in the main phase, holds the price of a settlement and has a
\* road to the free vertex 19, which is one edge from the settlements on 18
\* and 21: the request to settle there is refused by the distance rule alone
C10_Witness ==
    /\ state.phase = "main"
    /\ IsCurrent(1)
    /\ canBuildSettlementAnyDistance(state, 1, 19)
    /\ ~canBuildSettlement(state, 1, 19)
    /\ \E v \in VertexIds : state.board.vertices[v].building # "null"

-----------------------------------------------------------------------------
(* SpecLongest: calculateLongestRoad on boards where player 1 owns any      *)
(* subset of nine edges around vertices 5 and 19 and a settlement of        *)
(* player 1 or of player 2 may stand on one of their vertices.              *)

\* the hex ring 1-2-3-4-5-6, the spoke 5-19 and the edges 18-19 and 19-21
LongestEdges == {1, 2, 3, 4, 5, 6, 22, 23, 25}
LongestVertices == {3, 5, 19}

InitLongest ==
    \E owned \in SUBSET LongestEdges, v \in LongestVertices, owner \in 0..2 :
        /\ state =
              [createGameState(<<1, 2>>, getDefaultGameSettings(2),
                               ShuffledTerrains, ShuffledNumbers, ShuffledDeck)
               EXCEPT !.phase = "main",
                      !.board.edges = [e \in EdgeIds |->
                          IF e \in owned THEN [road |-> TRUE, playerId |-> 1] ELSE @[e]],
                      !.board.vertices = [w \in VertexIds |->
                          IF w = v /\ owner # 0
                          THEN [building |-> "settlement", playerId |-> owner] ELSE @[w]]]
        /\ playerToRoom = 1..2
        /\ seatSocket = <<1, 2>>
        /\ socketsOpened = 2
        /\ secondPlaced = <<0, 0>>

\* buildRoad's `player.longestRoad = calculateLongestRoad(state.board, playerId)`
ApplyCalculateLongestRoad ==
    /\ state.players[1].longestRoad = 0
    /\ state' = [state EXCEPT !.players[1].longestRoad =
                                calculateLongestRoad(state.board, 1)]
    /\ UNCHANGED <<Room, secondPlaced>>

NextLongest == ApplyCalculateLongestRoad

SpecLongest == InitLongest /\ [][NextLongest]_vars

\* a vertex a chain of playerId may pass through: no other player's building
Passable(board, playerId, v) ==
    board.vertices[v].playerId \in {NoPlayer, playerId}

\* the most edges a chain can still add at its end vertex v, having used the
\* edges in used and passed through the vertices in passed
RECURSIVE ChainFrom(_, _, _, _, _)
ChainFrom(board, playerId, v, used, passed) ==
    IF ~Passable(board, playerId, v) \/ v \in passed THEN 0
    ELSE MaxOf({1 + ChainFrom(board, playerId,
                              CHOOSE w \in EdgeEnds(e) : w # v,
                              used \cup {e}, passed \cup {v}) :
                  e \in {e \in getVertexEdges(v) \ used :
                            board.edges[e].road /\ board.edges[e].playerId = playerId}})

\* the number of edges of the longest simple chain of playerId's edges
LongestSimpleChain(board, playerId) ==
    LET playerEdges == {e \in EdgeIds :
                          board.edges[e].road /\ board.edges[e].playerId = playerId}
    IN  MaxOf({1 + ChainFrom(board, playerId, start[2], {start[1]}, {}) :
                 start \in {x \in playerEdges \X VertexIds : x[2] \in EdgeEnds(x[1])}})

\* C6: calculateLongestRoad returns the number of edges of the longest simple
\* chain of the player's edges: distinct edges joined end to end at vertices
\* that hold no other player's building, each junction passed through once
\* (a fork of three edges gives 2).
C6_LongestSimpleChain ==
    state.players[1].longestRoad # 0 =>
        state.players[1].longestRoad = LongestSimpleChain(state.board, 1)

-----------------------------------------------------------------------------
(* SpecRejoin: a two-player game whose players drop out and come back       *)

\* connections opened in all, and turns played before turns stop ending
MaxSockets == 4
RejoinMaxTurns == 3

InitRejoin == InitGame(2, getDefaultGameSettings(2))

NextRejoin ==
    \/ \E sid \in 1..MaxSockets :
          \/ \E v \in RoadsSetupVertices[((sid - 1) % 2) + 1][state.setupRound] :
                OnPlaceInitialSettlement(sid, v)
          \/ \E e \in RoadsSetupEdges : OnPlaceInitialRoad(sid, e)
          \/ OnRollDice(sid, 3, 3)
          \/ state.turnNumber < RejoinMaxTurns /\ OnEndTurn(sid)
    \/ \E seat \in 1..2 :
          \/ OnDisconnect(seat)
          \/ OnLeaveRoom(seat)
          \/ socketsOpened < MaxSockets /\ OnConnection(seat)
          \/ OnJoinRoom(seat)

SpecRejoin == InitRejoin /\ [][NextRejoin]_vars

\* C7: a person who is in the room, also after dropping out and rejoining
\* under the same name, passes the turn check of the handlers on the socket
\* now in use when the current player is the player of that name.
C7_RejoinedPlayerIsAuthorized ==
    \A seat \in PlayerIdxs(state) :
        (/\ seatSocket[seat] \in playerToRoom
         /\ getCurrentPlayer(state).name = seat)
        => IsCurrent(seatSocket[seat])

-----------------------------------------------------------------------------
(* SpecArmy: a two-player game on a board where totals 6 and 8 pay both     *)
(* players sheep, wheat and ore; both buy and play knights.                 *)

\* another outcome of the two board shuffles: hexes 1 and 2 are sheep and
\* wheat on 6, hexes 3 and 7 ore on 8, the desert is hex 10
ArmyTerrains ==
    << "sheep", "wheat", "ore", "wood", "wood", "wood", "ore",
       "wood", "sheep", "desert", "brick", "brick", "brick", "wheat",
       "wheat", "ore", "sheep", "wheat", "sheep" >>

ArmyNumbers ==
    << 6, 6, 8, 2, 3, 3, 8, 4, 4, 5, 5, 9, 9, 10, 10, 11, 11, 12 >>

\* turns played before the model stops ending turns
ArmyMaxTurns == 9

\* the vertex each socket's client names in setup round 1 and round 2
ArmySetupVertices == << << {1}, {24} >>, << {3}, {9} >> >>
ArmySetupEdges == {10, 29, 3, 9}

ArmyDice == {<<3, 3>>, <<4, 4>>}

\* hexes clients move the robber to: the desert and a hex nobody has built on
ArmyRobberHexes == {10, 12}

InitArmy ==
    InitGameOn(2, getDefaultGameSettings(2), ArmyTerrains, ArmyNumbers, ShuffledDeck)

NextArmy ==
    \E sid \in 1..2 :
        \/ \E v \in ArmySetupVertices[sid][state.setupRound] :
              OnPlaceInitialSettlement(sid, v)
        \/ \E e \in ArmySetupEdges : OnPlaceInitialRoad(sid, e)
        \/ \E d \in ArmyDice : OnRollDice(sid, d[1], d[2])
        \/ OnBuyDevCard(sid)
        \/ OnPlayKnight(sid)
        \/ \E h \in ArmyRobberHexes : OnMoveRobber(sid, h)
        \/ state.turnNumber < ArmyMaxTurns /\ OnEndTurn(sid)

SpecArmy == InitArmy /\ [][NextArmy]_vars

KnightsOf(st, playerId) == st.players[getPlayerById(st, playerId)].knightsPlayed

\* C4: the Largest Army bonus first goes to a player who has just played a
\* third knight; afterwards it leaves its holder only for a player with
\* strictly more knights played, and a knight play that makes a challenger's
\* count equal to the holder's leaves the holder and both players' victory
\* points as they were, whatever the list order.
C4_TieKeepsLargestArmy ==
    [][LET holder == state.largestArmyPlayerId
           newHolder == state'.largestArmyPlayerId
       IN  /\ (holder = NoPlayer /\ newHolder # NoPlayer) =>
                 /\ KnightsOf(state', newHolder) = 3
                 /\ KnightsOf(state, newHolder) = 2
           /\ (holder # NoPlayer /\ newHolder # holder) =>
                 /\ newHolder # NoPlayer
                 /\ KnightsOf(state', newHolder) > KnightsOf(state', holder)
           /\ holder # NoPlayer =>
                 \A i \in PlayerIdxs(state) :
                    (/\ state.players[i].id # holder
                     /\ state'.players[i].knightsPlayed = state.players[i].knightsPlayed + 1
                     /\ state'.players[i].knightsPlayed = KnightsOf(state', holder))
                    => /\ newHolder = holder
                       /\ VictoryPointsOf(state', holder) = VictoryPointsOf(state, holder)
                       /\ state'.players[i].victoryPoints = state.players[i].victoryPoints]_vars

-----------------------------------------------------------------------------
(* SpecVictory: the same board; player 1 buys development cards, plays      *)
(* knights and builds cities while player 2 only rolls and ends turns.      *)

\* another outcome of shuffle(DEV_CARD_DISTRIBUTION): three knights are drawn
\* first, then the five victory point cards
VictoryDeck ==
    [i \in 1..25 |->
        IF i <= 11 THEN "knight"
        ELSE IF i <= 13 THEN "road_building"
        ELSE IF i <= 15 THEN "year_of_plenty"
        ELSE IF i <= 17 THEN "monopoly"
        ELSE IF i <= 22 THEN "victory_point"
        ELSE "knight"]

\* turns played before the model stops ending turns
VictoryMaxTurns == 12

VictoryCities == {1, 24}

InitVictory ==
    InitGameOn(2, getDefaultGameSettings(2), ArmyTerrains, ArmyNumbers, VictoryDeck)

NextVictory ==
    \/ \E sid \in 1..2 :
          \/ \E v \in ArmySetupVertices[sid][state.setupRound] :
                OnPlaceInitialSettlement(sid, v)
          \/ \E e \in ArmySetupEdges : OnPlaceInitialRoad(sid, e)
          \/ \E d \in ArmyDice : OnRollDice(sid, d[1], d[2])
          \/ state.turnNumber < VictoryMaxTurns /\ OnEndTurn(sid)
    \/ OnBuyDevCard(1)
    \/ OnPlayKnight(1)
    \/ \E h \in ArmyRobberHexes : OnMoveRobber(1, h)
    \/ \E v \in VictoryCities : OnBuildCity(1, v)

SpecVictory == InitVictory /\ [][NextVictory]_vars

\* C1: while the phase is not 'ended' every player's victory points plus
\* held victory point cards are below settings.victoryPointsToWin
C1_GameEndsAtThreshold ==
    state.phase # "ended" =>
        \A i \in PlayerIdxs(state) :
            state.players[i].victoryPoints + HiddenVP(state.players[i])
                < state.settings.victoryPointsToWin

\* the vertices on which the player at index i has a building of this kind
BuildingsOf(st, i, kind) ==
    Cardinality({v \in VertexIds : /\ st.board.vertices[v].playerId = st.players[i].id
                                   /\ st.board.vertices[v].building = kind})

BonusOf(st, i, holderId) == IF holderId = st.players[i].id THEN 2 ELSE 0

Amounts == [ResourceTypes -> 0..1]

\* any game operation requested on socket sid, with any input
GameOperation(sid) ==
    \/ \E v \in VertexIds :
          \/ OnPlaceInitialSettlement(sid, v)
          \/ OnBuildSettlement(sid, v)
          \/ OnBuildCity(sid, v)
    \/ \E e \in EdgeIds : OnPlaceInitialRoad(sid, e) \/ OnBuildRoad(sid, e)
    \/ \E die1 \in 1..6, die2 \in 1..6 : OnRollDice(sid, die1, die2)
    \/ \E h \in HexIds : OnMoveRobber(sid, h)
    \/ \E t \in 0..MaxPlayers, random \in 0..2 : OnStealResource(sid, t, random)
    \/ \E resources \in Amounts : OnDiscardResources(sid, resources)
    \/ \E t \in 0..MaxPlayers, offering \in Amounts, requesting \in Amounts :
          OnProposeTrade(sid, t, offering, requesting)
    \/ \E accept \in BOOLEAN : OnRespondToTrade(sid, accept)
    \/ OnCancelTrade(sid)
    \/ \E giving \in Amounts, receiving \in Amounts : OnBankTrade(sid, giving, receiving)
    \/ OnBuyDevCard(sid)
    \/ OnPlayKnight(sid)
    \/ OnPlayRoadBuilding(sid)
    \/ \E r1 \in ResourceTypes, r2 \in ResourceTypes : OnPlayYearOfPlenty(sid, r1, r2)
    \/ \E r \in ResourceTypes : OnPlayMonopoly(sid, r)
    \/ OnEndTurn(sid)

AnyGameOperation == \E sid \in Sockets : GameOperation(sid)

\* C12: once the phase is 'ended' no game operation of any player is accepted
\* (roll, build, place, robber move, steal, discard, trade propose, respond or
\* cancel, bank trade, buying or playing a development card, end turn), and no
\* step changes the phase, the winner, the players, the board or the deck.
C12_EndedIsFinal ==
    /\ [](state.phase = "ended" => ~ENABLED AnyGameOperation)
    /\ [][state.phase = "ended" =>
            /\ state'.phase = "ended"
            /\ state'.winnerId = state.winnerId
            /\ state'.players = state.players
            /\ state'.board = state.board
            /\ state'.devCardDeck = state.devCardDeck]_vars

\* the game has ended with player 1 the winner while turns were still left
C12_Witness ==
    /\ state.phase = "ended"
    /\ state.winnerId = state.players[1].id
    /\ state.turnNumber < VictoryMaxTurns

\* the victory points the player at index i has from buildings and bonuses
PublicPoints(st, i) ==
    BuildingsOf(st, i, "settlement") + 2 * BuildingsOf(st, i, "city")
      + BonusOf(st, i, st.longestRoadPlayerId) + BonusOf(st, i, st.largestArmyPlayerId)

\* C13: the phase is 'ended' exactly when winnerId is set; the winner is a
\* player whose public points plus held victory point cards reached
\* settings.victoryPointsToWin, and the winner's victoryPoints are the public
\* points raised by exactly the number of victory point cards held.
C13_WinnerRevealed ==
    /\ state.phase = "ended" <=> state.winnerId # NoPlayer
    /\ state.phase = "ended" =>
          /\ HasPlayer(state, state.winnerId)
          /\ LET w == getPlayerById(state, state.winnerId) IN
                /\ state.players[w].victoryPoints
                     = PublicPoints(state, w) + HiddenVP(state.players[w])
                /\ state.players[w].victoryPoints >= state.settings.victoryPointsToWin

\* the game was won with victory point cards in the winner's hand
C13_Witness ==
    /\ state.phase = "ended"
    /\ HasPlayer(state, state.winnerId)
    /\ HiddenVP(state.players[getPlayerById(state, state.winnerId)]) > 0
    /\ PublicPoints(state, getPlayerById(state, state.winnerId))
         < state.settings.victoryPointsToWin

-----------------------------------------------------------------------------
(* SpecDiscard: a two-player game on the board of SpecArmy in which hands    *)
(* grow past the hand limit, sevens are rolled, cards are discarded, the     *)
(* robber is moved onto a producing hex, cities are built and, early in the  *)
(* game, one sheep is offered for one wheat                                  *)

\* turns played before the model stops ending turns
DiscardMaxTurns == 6

\* trades are proposed while the log holds fewer entries than this
DiscardMaxLog == 19

DiscardDice == {<<3, 3>>, <<4, 4>>, <<3, 4>>}

DiscardRobberHexes == {1, 12}

DiscardCities == {1, 3}

\* discard payloads: sheep, wheat and ore amounts
DiscardPayloads ==
    {Cost(0, 0, s, wh, o) : s \in 0..3, wh \in 0..3, o \in 0..3}

InitDiscard ==
    InitGameOn(2, getDefaultGameSettings(2), ArmyTerrains, ArmyNumbers, ShuffledDeck)

NextDiscard ==
    \E sid \in 1..2 :
        \/ \E v \in ArmySetupVertices[sid][state.setupRound] :
              OnPlaceInitialSettlement(sid, v)
        \/ \E e \in ArmySetupEdges : OnPlaceInitialRoad(sid, e)
        \/ \E d \in DiscardDice : OnRollDice(sid, d[1], d[2])
        \/ \E resources \in DiscardPayloads : OnDiscardResources(sid, resources)
        \/ \E h \in DiscardRobberHexes : OnMoveRobber(sid, h)
        \/ \E t \in 1..2 : OnStealResource(sid, t, 0)
        \/ \E v \in DiscardCities : OnBuildCity(sid, v)
        \/ /\ Len(state.log) < DiscardMaxLog
           /\ \E t \in 0..2 :
                 OnProposeTrade(sid, t, Cost(0, 0, 1, 0, 0), Cost(0, 0, 0, 1, 0))
        \/ \E accept \in BOOLEAN : OnRespondToTrade(sid, accept)
        \/ OnCancelTrade(sid)
        \/ state.turnNumber < DiscardMaxTurns /\ OnEndTurn(sid)

SpecDiscard == InitDiscard /\ [][NextDiscard]_vars

-----------------------------------------------------------------------------
(* Rejected calls *)

\* sid is the current player and the phase is one of phases
CurrentIn(sid, phases) ==
    /\ state.phase \in phases
    /\ getCurrentPlayer(state).id = sid

\* the payloads of the trade requests tried in every state
RejectedPayloads == {Cost(0, 0, 0, 0, 0), Cost(0, 0, 1, 0, 0), Cost(0, 0, 0, 1, 0)}

\* C14: a call of a mutating operation made in a phase the operation does not
\* allow, or by a socket that is not its authorised actor (the current player;
\* for a discard a player of discardingPlayerIds; for a trade response the
\* offer's target; for a trade cancel the proposer), is rejected: it has no
\* successor state, so the game state, log included, stays as it was.
C14_RejectedCallsChangeNothing ==
    [](\A sid \in 1..3 :
        /\ ~CurrentIn(sid, {"setup_settlement"}) =>
              ~ENABLED (\E v \in VertexIds : OnPlaceInitialSettlement(sid, v))
        /\ ~CurrentIn(sid, {"setup_road"}) =>
              ~ENABLED (\E e \in EdgeIds : OnPlaceInitialRoad(sid, e))
        /\ ~CurrentIn(sid, {"roll"}) =>
              ~ENABLED (\E d \in DiscardDice : OnRollDice(sid, d[1], d[2]))
        /\ ~CurrentIn(sid, {"main", "road_building"}) =>
              ~ENABLED (\E e \in EdgeIds : OnBuildRoad(sid, e))
        /\ ~CurrentIn(sid, {"main"}) =>
              ~ENABLED (\/ \E v \in VertexIds : OnBuildSettlement(sid, v)
                        \/ \E v \in VertexIds : OnBuildCity(sid, v)
                        \/ OnBuyDevCard(sid)
                        \/ OnPlayRoadBuilding(sid)
                        \/ \E r1, r2 \in ResourceTypes : OnPlayYearOfPlenty(sid, r1, r2)
                        \/ \E r \in ResourceTypes : OnPlayMonopoly(sid, r)
                        \/ \E t \in 0..2 : \E o, r \in RejectedPayloads :
                              OnProposeTrade(sid, t, o, r)
                        \/ \E g, r \in RejectedPayloads : OnBankTrade(sid, g, r)
                        \/ OnEndTurn(sid))
        /\ ~CurrentIn(sid, {"main", "roll"}) => ~ENABLED OnPlayKnight(sid)
        /\ ~CurrentIn(sid, {"robber_move"}) =>
              ~ENABLED (\E h \in HexIds : OnMoveRobber(sid, h))
        /\ ~CurrentIn(sid, {"robber_steal"}) =>
              ~ENABLED (\E t \in 0..2 : OnStealResource(sid, t, 0))
        /\ ~(state.phase = "robber_discard" /\ InSeq(state.discardingPlayerIds, sid)) =>
              ~ENABLED (\E resources \in DiscardPayloads : OnDiscardResources(sid, resources))
        /\ ~(state.phase = "trade" /\ state.tradeOffer # NoOffer
                /\ state.tradeOffer.toPlayerId = sid) =>
              ~ENABLED (\E accept \in BOOLEAN : OnRespondToTrade(sid, accept))
        /\ ~(state.phase = "trade" /\ state.tradeOffer # NoOffer
                /\ state.tradeOffer.fromPlayerId = sid) =>
              ~ENABLED OnCancelTrade(sid))

\* a seven has flagged the player who did not roll, and only that player
C14_Witness ==
    /\ state.phase = "robber_discard"
    /\ Len(state.discardingPlayerIds) = 1
    /\ state.discardingPlayerIds[1] # getCurrentPlayer(state).id

-----------------------------------------------------------------------------
(* Production *)

\* what one hex pays the player of index i: 1 per settlement and 2 per city of
\* that player on the hex's vertices
HexYield(st, i, h) ==
    Cardinality({v \in getHexVertices(h) :
                    /\ st.board.vertices[v].building = "settlement"
                    /\ st.board.vertices[v].playerId = st.players[i].id})
    + 2 * Cardinality({v \in getHexVertices(h) :
                    /\ st.board.vertices[v].building = "city"
                    /\ st.board.vertices[v].playerId = st.players[i].id})

\* the gain of resource r for player i on a roll of total: the sum of HexYield
\* over the hexes of terrain r and number total that do not hold the robber
RollGain(st, i, r, total) ==
    LET paying == {h \in HexIds : /\ st.board.hexes[h].terrain = r
                                  /\ st.board.hexes[h].number = total
                                  /\ ~st.board.hexes[h].hasRobber}
    IN  SumOver([h \in paying |-> HexYield(st, i, h)], paying)

\* C15: on a roll whose total X is not 7 every player's count of every
\* resource R grows by exactly the sum, over the hexes of terrain R and number
\* X that do not hold the robber, of 1 per own settlement and 2 per own city
\* on the hex (so nothing else changes and a robbed hex or the desert pays
\* nothing), and the phase becomes 'main'.
C15_Production ==
    [][\A sid \in 1..2 : \A d \in DiscardDice :
          (d[1] + d[2] # 7 /\ OnRollDice(sid, d[1], d[2])) =>
              /\ state'.phase = "main"
              /\ \A i \in PlayerIdxs(state) : \A r \in ResourceTypes :
                    state'.players[i].resources[r] =
                        state.players[i].resources[r]
                            + RollGain(state, i, r, d[1] + d[2])
              /\ state'.board = state.board]_vars

\* player 2 has just rolled a 6 while player 1 had a city on vertex 1, which
\* touches the robbed sheep hex 1 and the wheat hex 2, both numbered 6
C15_Witness ==
    /\ state.phase = "main"
    /\ state.lastDiceRoll = <<3, 3>>
    /\ state.currentPlayerIndex = 1
    /\ state.board.hexes[1].hasRobber
    /\ state.board.vertices[1].building = "city"
    /\ state.board.vertices[1].playerId = state.players[1].id

-----------------------------------------------------------------------------
(* Discarding after a seven *)

\* the hand size of the player with socket id sid
HandSize(st, sid) == getTotalResources(st.players[getPlayerById(st, sid)])

\* C16: a discard submitted by a flagged player is accepted exactly when its
\* amounts sum to floor(h/2), h the player's hand size, and the player holds
\* every submitted amount; an accepted discard removes exactly those cards from
\* that hand, touches no other hand and takes the player out of
\* discardingPlayerIds; any other submission is rejected, so hand, pending
\* list and phase stay as they were.
C16_DiscardExactlyHalf ==
    /\ [](\A sid \in 1..2 : \A resources \in DiscardPayloads :
            (state.phase = "robber_discard" /\ InSeq(state.discardingPlayerIds, sid)) =>
                ((ENABLED OnDiscardResources(sid, resources)) <=>
                    /\ resources["wood"] + resources["brick"] + resources["sheep"]
                          + resources["wheat"] + resources["ore"]
                            = HandSize(state, sid) \div 2
                    /\ \A r \in ResourceTypes :
                          state.players[getPlayerById(state, sid)].resources[r]
                              >= resources[r]))
    /\ [][\A sid \in 1..2 : \A resources \in DiscardPayloads :
            OnDiscardResources(sid, resources) =>
                /\ \A i \in PlayerIdxs(state) : \A r \in ResourceTypes :
                      state'.players[i].resources[r] =
                          state.players[i].resources[r]
                              - (IF state.players[i].id = sid THEN resources[r] ELSE 0)
                /\ ~InSeq(state'.discardingPlayerIds, sid)
                /\ \A other \in 1..2 :
                      other # sid =>
                          (InSeq(state'.discardingPlayerIds, other)
                              <=> InSeq(state.discardingPlayerIds, other))]_vars

\* both players are flagged and the first holds eleven cards, of which five,
\* not six, are due
C16_Witness ==
    /\ state.phase = "robber_discard"
    /\ Len(state.discardingPlayerIds) = 2
    /\ HandSize(state, state.players[1].id) = 11

\* the socket ids of the players holding more than handLimit cards, in order
Flagged(st) ==
    LET over == getPlayersToDiscard(st) IN [k \in 1..Len(over) |-> over[k].id]

\* C17: a seven that flags somebody puts the game in 'robber_discard' with
\* exactly the players over the hand limit pending, each once; while anybody
\* is pending the phase is 'robber_discard' and no moveRobber call is
\* accepted; the only steps out of a pending state are accepted discards of
\* pending players, each removing that player alone from the list, and the
\* phase becomes 'robber_move' exactly on the discard that empties the list.
C17_DiscardBeforeRobber ==
    /\ [](state.phase = "robber_discard" =>
            /\ Len(state.discardingPlayerIds) > 0
            /\ \A j, k \in DOMAIN state.discardingPlayerIds :
                  state.discardingPlayerIds[j] = state.discardingPlayerIds[k] => j = k
            /\ ~ENABLED (\E sid \in Sockets : \E h \in HexIds : OnMoveRobber(sid, h)))
    /\ [][/\ (\E sid \in 1..2 : OnRollDice(sid, 3, 4)) =>
                IF Len(Flagged(state)) > 0
                THEN /\ state'.phase = "robber_discard"
                     /\ state'.discardingPlayerIds = Flagged(state)
                ELSE state'.phase = "robber_move"
          /\ state.phase = "robber_discard" =>
                /\ \E sid \in 1..2 :
                      /\ InSeq(state.discardingPlayerIds, sid)
                      /\ state'.discardingPlayerIds = SeqRemove(state.discardingPlayerIds, sid)
                      /\ HandSize(state', sid) = HandSize(state, sid) - (HandSize(state, sid) \div 2)
                /\ state'.phase = IF Len(state'.discardingPlayerIds) = 0
                                  THEN "robber_move" ELSE "robber_discard"
                /\ state'.board = state.board]_vars

\* the player who rolled the seven is the only one still to discard
C17_Witness ==
    /\ state.phase = "robber_discard"
    /\ state.discardingPlayerIds = <<getCurrentPlayer(state).id>>
    /\ state.lastDiceRoll = <<3, 4>>

-----------------------------------------------------------------------------
(* SpecBank: a two-player game on the board of SpecArmy whose setup puts     *)
(* settlements on harbor vertices (28 wheat, 43 generic, 30 ore) or away     *)
(* from them, followed by rolls and bank trades                              *)

\* turns played before the model stops ending turns
BankMaxTurns == 5

BankSetupVertices == << << {1, 43}, {12, 28} >>, << {3}, {9, 30} >> >>
BankSetupEdges == {10, 56, 42, 34, 3, 9, 38}

BankDice == {<<3, 3>>, <<4, 4>>, <<4, 5>>}

\* what is offered to the bank: sheep, wheat and ore
BankGivings == {Cost(0, 0, s, wh, o) : s \in {0, 2}, wh \in 0..4, o \in {0, 2}}

\* what is asked of the bank
BankReceivings == {Cost(0, 0, 0, 0, 0), Cost(0, 1, 0, 0, 0), Cost(0, 2, 0, 0, 0)}

InitBank ==
    InitGameOn(2, getDefaultGameSettings(2), ArmyTerrains, ArmyNumbers, ShuffledDeck)

NextBank ==
    \E sid \in 1..2 :
        \/ \E v \in BankSetupVertices[sid][state.setupRound] :
              OnPlaceInitialSettlement(sid, v)
        \/ \E e \in BankSetupEdges : OnPlaceInitialRoad(sid, e)
        \/ \E d \in BankDice : OnRollDice(sid, d[1], d[2])
        \/ \E giving \in BankGivings \ {Cost(0, 0, 0, 0, 0)} :
              \E receiving \in BankReceivings : OnBankTrade(sid, giving, receiving)
        \/ state.turnNumber < BankMaxTurns /\ OnEndTurn(sid)

SpecBank == InitBank /\ [][NextBank]_vars

-----------------------------------------------------------------------------
(* Harbors and the bank *)

\* the player with socket id sid has a building on a vertex of a harbor of
\* the given type
OnHarbor(st, sid, type) ==
    \E h \in DOMAIN Harbors :
        /\ Harbors[h].type = type
        /\ \E k \in 1..2 :
              /\ st.board.vertices[Harbors[h].vertexIds[k]].building # "null"
              /\ st.board.vertices[Harbors[h].vertexIds[k]].playerId = sid

\* 2 on a harbor of resource r, otherwise 3 on a generic harbor, otherwise 4
HarborRatio(st, sid, r) ==
    IF OnHarbor(st, sid, r) THEN 2
    ELSE IF OnHarbor(st, sid, "3:1") THEN 3
    ELSE 4

ReverseSeq(seq) == [k \in 1..Len(seq) |-> seq[Len(seq) + 1 - k]]

\* C18: for every player and resource R the ratio getPlayerTradeRatios returns
\* is 2 if the player has a building on a vertex of an R harbor, otherwise 3
\* if the player has one on a vertex of a generic 3:1 harbor, otherwise 4 (so
\* a harbor of one resource leaves the other resources' ratios alone), and
\* examining the player's harbors in the opposite order gives the same ratios.
C18_TradeRatios ==
    \A sid \in 1..2 :
        /\ \A r \in ResourceTypes :
              getPlayerTradeRatios(state, sid)[r] = HarborRatio(state, sid, r)
        /\ TradeRatioScan(ReverseSeq(getPlayerHarbors(state.board, sid)), 1,
                          [r \in ResourceTypes |-> 4])
              = getPlayerTradeRatios(state, sid)

\* player 1, settled on the wheat harbor (vertex 28) and on a generic harbor
\* (vertex 43), holds brick, which only a bank trade can have given
C18_Witness ==
    /\ state.board.vertices[28].playerId = state.players[1].id
    /\ state.board.vertices[43].playerId = state.players[1].id
    /\ state.players[1].resources["brick"] > 0
    /\ getPlayerTradeRatios(state, state.players[1].id)
          = Cost(3, 3, 3, 2, 3)

\* the hand of the player with socket id sid
HandOf(st, sid) == st.players[getPlayerById(st, sid)].resources

\* C19: a bank trade by the current player in 'main' is accepted exactly when
\* the sum over the given resources of amount / ratio (counted here in
\* twelfths, the ratios being 2, 3 or 4) equals the number of units asked for
\* and the player holds every given amount; an accepted trade changes that
\* hand by minus the given plus the requested amounts in one step and no other
\* hand; a refused one changes nothing.
C19_BankTrade ==
    /\ [](\A sid \in 1..2 : \A giving \in BankGivings : \A receiving \in BankReceivings :
            CurrentIn(sid, {"main"}) =>
                ((ENABLED OnBankTrade(sid, giving, receiving)) <=>
                    /\ SumOver([r \in ResourceTypes |->
                                   (12 * giving[r]) \div HarborRatio(state, sid, r)],
                               ResourceTypes)
                          = 12 * SumOver(receiving, ResourceTypes)
                    /\ \A r \in ResourceTypes : HandOf(state, sid)[r] >= giving[r]))
    /\ [][\A sid \in 1..2 : \A giving \in BankGivings : \A receiving \in BankReceivings :
            OnBankTrade(sid, giving, receiving) =>
                /\ \A other \in 1..2 : \A r \in ResourceTypes :
                      HandOf(state', other)[r] =
                          IF other = sid
                          THEN HandOf(state, sid)[r] - giving[r] + receiving[r]
                          ELSE HandOf(state, other)[r]
                /\ state'.phase = "main"
                /\ state'.board = state.board]_vars

\* player 2, settled on the ore harbor (vertex 30), holds brick, which only a
\* bank trade can have given
C19_Witness ==
    /\ state.board.vertices[30].playerId = state.players[2].id
    /\ state.players[2].resources["brick"] > 0
    /\ state.phase = "main"

-----------------------------------------------------------------------------
(* SpecCards: a three-player game on the board of SpecArmy with a deck whose *)
(* top cards are monopoly, year of plenty, monopoly; players buy and play    *)
(* them between rolls of 6 and 8                                             *)

\* another outcome of shuffle(deck); cards are drawn from the end
CardsDeck ==
    [i \in 1..25 |->
        IF i <= 14 THEN "knight"
        ELSE IF i <= 19 THEN "victory_point"
        ELSE IF i <= 21 THEN "road_building"
        ELSE IF i = 22 THEN "year_of_plenty"
        ELSE IF i = 23 THEN "monopoly"
        ELSE IF i = 24 THEN "year_of_plenty"
        ELSE "monopoly"]

\* turns played before the model stops ending turns
CardsMaxTurns == 6

CardsSetupVertices == << << {1}, {24} >>, << {3}, {9} >>, << {5}, {12} >> >>
CardsSetupEdges == {10, 29, 3, 9, 23, 42}

\* the resources clients name when they play a card
CardsResources == {"wood", "sheep", "wheat", "ore"}

InitCards ==
    InitGameOn(3, getDefaultGameSettings(3), ArmyTerrains, ArmyNumbers, CardsDeck)

NextCards ==
    \E sid \in 1..3 :
        \/ \E v \in CardsSetupVertices[sid][state.setupRound] :
              OnPlaceInitialSettlement(sid, v)
        \/ \E e \in CardsSetupEdges : OnPlaceInitialRoad(sid, e)
        \/ \E d \in ArmyDice : OnRollDice(sid, d[1], d[2])
        \/ OnBuyDevCard(sid)
        \/ \E resource \in CardsResources : OnPlayMonopoly(sid, resource)
        \/ \E resource \in CardsResources : OnPlayYearOfPlenty(sid, "wood", resource)
        \/ state.turnNumber < CardsMaxTurns /\ OnEndTurn(sid)

SpecCards == InitCards /\ [][NextCards]_vars

\* C20: an accepted Monopoly play on resource R leaves every other player with
\* no R, gives the caller exactly the sum of what the others held, so the
\* total of R over all players is unchanged, and changes no other resource of
\* any player.
C20_Monopoly ==
    [][\A sid \in 1..3 : \A resource \in ResourceTypes :
          OnPlayMonopoly(sid, resource) =>
              LET others == {j \in PlayerIdxs(state) : state.players[j].id # sid}
                  caller == getPlayerById(state, sid)
              IN  /\ \A j \in others : state'.players[j].resources[resource] = 0
                  /\ state'.players[caller].resources[resource] =
                        state.players[caller].resources[resource]
                          + SumOver([j \in others |-> state.players[j].resources[resource]],
                                    others)
                  /\ SumOver([j \in PlayerIdxs(state) |-> state'.players[j].resources[resource]],
                             PlayerIdxs(state))
                        = SumOver([j \in PlayerIdxs(state) |-> state.players[j].resources[resource]],
                                  PlayerIdxs(state))
                  /\ \A j \in PlayerIdxs(state) : \A r \in ResourceTypes \ {resource} :
                        state'.players[j].resources[r] = state.players[j].resources[r]]_vars

\* player 1 has played a card this turn and holds six sheep or more, the two
\* others none: more sheep than player 1's own settlements can have produced
C20_Witness ==
    /\ state.players[1].devCardPlayedThisTurn
    /\ state.currentPlayerIndex = 0
    /\ state.players[1].resources["sheep"] >= 6
    /\ state.players[2].resources["sheep"] = 0
    /\ state.players[3].resources["sheep"] = 0

-----------------------------------------------------------------------------
(* City upgrades *)

\* what a city upgrade of vertex v by socket sid requires and does, apart
\* from the victory points
CityUpgradeEffect(sid, v) ==
    LET i == getPlayerById(state, sid) IN
    /\ state.board.vertices[v].building = "settlement"
    /\ state.board.vertices[v].playerId = sid
    /\ state.players[i].resources["wheat"] >= 2
    /\ state.players[i].resources["ore"] >= 3
    /\ state.players[i].citiesBuilt < 4
    /\ state'.board.vertices[v].building = "city"
    /\ state'.board.vertices[v].playerId = sid
    /\ state'.players[i].settlementsBuilt = state.players[i].settlementsBuilt - 1
    /\ state'.players[i].citiesBuilt = state.players[i].citiesBuilt + 1
    /\ state'.players[i].resources =
          [state.players[i].resources EXCEPT !["wheat"] = @ - 2, !["ore"] = @ - 3]

\* C21 as amended: an accepted city upgrade needs a settlement of the acting
\* player on the vertex, 2 wheat and 3 ore in hand and citiesBuilt < 4; it
\* makes that settlement a city of the same owner, takes 1 from
\* settlementsBuilt, adds 1 to citiesBuilt, deducts exactly 2 wheat and 3 ore,
\* and raises the player's victoryPoints by exactly 1, plus the number of
\* victory point cards the player holds when the upgrade makes that player
\* the winner.
C21_CityUpgrade ==
    [][\A sid \in 1..2 : \A v \in VertexIds :
          OnBuildCity(sid, v) =>
              LET i == getPlayerById(state, sid) IN
              /\ CityUpgradeEffect(sid, v)
              /\ state'.players[i].victoryPoints =
                    state.players[i].victoryPoints + 1
                      + (IF state'.winnerId = sid THEN HiddenVP(state.players[i]) ELSE 0)]_vars

\* C21 as stated: the same, with victoryPoints raised by exactly 1 by every
\* accepted upgrade.
C21_CityUpgradeByOne ==
    [][\A sid \in 1..2 : \A v \in VertexIds :
          OnBuildCity(sid, v) =>
              LET i == getPlayerById(state, sid) IN
              /\ CityUpgradeEffect(sid, v)
              /\ state'.players[i].victoryPoints =
                    state.players[i].victoryPoints + 1]_vars

\* player 1 has upgraded vertex 1 and the game goes on
C21_Witness ==
    /\ state.phase = "main"
    /\ state.board.vertices[1].building = "city"
    /\ state.players[1].citiesBuilt = 1
    /\ state.players[1].settlementsBuilt = 1

-----------------------------------------------------------------------------
(* SpecLimits: a two-player game in which player 1, settled on vertices 1    *)
(* and 12, is paid wood and brick on 6 and sheep and wheat on 8, holds a     *)
(* Road Building card from the first turn, and builds roads along one chain  *)
(* of fourteen edges and settlements on its vertices, ending a turn only     *)
(* when it can pay for neither; player 2 only rolls and ends turns           *)

\* another outcome of the two board shuffles: hexes 1 and 2 are wood and
\* brick on 6, hexes 3 and 11 sheep and wheat on 8, the desert is hex 19
LimitsTerrains ==
    << "wood", "brick", "sheep", "wood", "sheep", "wheat", "ore",
       "wood", "sheep", "ore", "wheat", "brick", "wheat", "brick",
       "wheat", "ore", "sheep", "wood", "desert" >>

LimitsNumbers ==
    << 6, 6, 8, 2, 3, 3, 4, 4, 5, 5, 8, 9, 9, 10, 10, 11, 11, 12 >>

\* another outcome of shuffle(deck): the two Road Building cards are drawn first
LimitsDeck ==
    [i \in 1..25 |->
        IF i <= 14 THEN "knight"
        ELSE IF i <= 19 THEN "victory_point"
        ELSE IF i <= 21 THEN "year_of_plenty"
        ELSE IF i <= 23 THEN "monopoly"
        ELSE "road_building"]

\* turns played before the model stops ending turns
LimitsMaxTurns == 14

LimitsSetupVertices == << << {1}, {12} >>, << {24}, {28} >> >>
LimitsSetupEdges == {6, 42, 29, 34}

LimitsDice == {<<3, 3>>, <<4, 4>>}

\* the chain of edges from vertex 6 to vertex 18, and vertices on it
LimitsEdges == {5, 4, 19, 18, 17, 45, 46, 47, 48, 50, 51, 52, 21}
LimitsVertices == {5, 16, 14, 36}

InitLimits ==
    InitGameOn(2, getDefaultGameSettings(2), LimitsTerrains, LimitsNumbers, LimitsDeck)

NextLimits ==
    \/ \E sid \in 1..2 :
          \/ \E v \in LimitsSetupVertices[sid][state.setupRound] :
                OnPlaceInitialSettlement(sid, v)
          \/ \E e \in LimitsSetupEdges : OnPlaceInitialRoad(sid, e)
          \/ \E d \in LimitsDice : OnRollDice(sid, d[1], d[2])
    \/ /\ state.turnNumber < LimitsMaxTurns
       /\ \A e \in LimitsEdges : ~canBuildRoad(state, 1, e, FALSE)
       /\ \A v \in LimitsVertices : ~canBuildSettlement(state, 1, v)
       /\ OnEndTurn(1)
    \/ state.turnNumber < LimitsMaxTurns /\ OnEndTurn(2)
    \/ \E e \in LimitsEdges : OnBuildRoad(1, e)
    \/ \E v \in LimitsVertices : OnBuildSettlement(1, v)
    \/ OnBuyDevCard(1)
    \/ OnPlayRoadBuilding(1)

SpecLimits == InitLimits /\ [][NextLimits]_vars

-----------------------------------------------------------------------------
(* Building ceilings *)

-----------------------------------------------------------------------------
(* Development cards bought this turn                                        *)

\* the card types that have a play operation
PlayedTypes == {"knight", "road_building", "year_of_plenty", "monopoly"}

\* the cards of a type the player bought in the current turn
BoughtNow(player, cardType) ==
    {k \in DOMAIN player.devCards :
        player.devCards[k].type = cardType /\ player.devCards[k].boughtThisTurn}

\* a play request for a card of the type, with any payload
PlayOf(sid, cardType) ==
    \/ cardType = "knight" /\ OnPlayKnight(sid)
    \/ cardType = "road_building" /\ OnPlayRoadBuilding(sid)
    \/ cardType = "year_of_plenty"
         /\ \E r1 \in ResourceTypes, r2 \in ResourceTypes : OnPlayYearOfPlenty(sid, r1, r2)
    \/ cardType = "monopoly" /\ \E r \in ResourceTypes : OnPlayMonopoly(sid, r)

\* C23: a bought card enters the hand flagged as bought this turn; while a
\* player's only cards of a type are flagged, every play of that type is
\* rejected; a flag is cleared by nothing but the holder's end-turn, which
\* clears all of the holder's flags, so only the current player holds flagged
\* cards; and on the holder's turn an unflagged card of a played type can be
\* played in 'main' (a knight also in 'roll') when no card was played this turn
C23_BoughtThisTurn ==
    /\ [](\A sid \in 1..3 : \A cardType \in PlayedTypes :
            LET player == state.players[getPlayerById(state, sid)] IN
            /\ (BoughtNow(player, cardType) # {} /\ Playable(player, cardType) = {})
                  => ~ENABLED PlayOf(sid, cardType)
            /\ (~IsCurrent(sid)) => BoughtNow(player, cardType) = {}
            /\ (/\ IsCurrent(sid)
                /\ state.phase = "main" \/ (state.phase = "roll" /\ cardType = "knight")
                /\ ~player.devCardPlayedThisTurn
                /\ Playable(player, cardType) # {})
                  => ENABLED PlayOf(sid, cardType))
    /\ [][\A sid \in 1..3 :
            LET i == getPlayerById(state, sid)
                before == state.players[i].devCards
                after == state'.players[i].devCards
            IN  /\ OnBuyDevCard(sid) =>
                      /\ Len(after) = Len(before) + 1
                      /\ after[Len(after)].boughtThisTurn
                      /\ after[Len(after)].type = state.devCardDeck[Len(state.devCardDeck)].type
                      /\ SubSeq(after, 1, Len(before)) = before
                /\ OnEndTurn(sid) =>
                      /\ Len(after) = Len(before)
                      /\ \A k \in DOMAIN after :
                            after[k].type = before[k].type /\ ~after[k].boughtThisTurn
                /\ (~OnEndTurn(sid)) =>
                      \A cardType \in PlayedTypes \cup {"victory_point"} :
                          Cardinality(BoughtNow(state'.players[i], cardType))
                              >= Cardinality(BoughtNow(state.players[i], cardType))]_vars

\* player 1 is in a later turn of its own, holds a card bought in an earlier
\* turn and playable now, and one bought in this turn that is not
C23_Witness ==
    /\ IsCurrent(1)
    /\ state.phase = "main"
    /\ state.turnNumber > 1
    /\ \E t1 \in PlayedTypes, t2 \in PlayedTypes :
          /\ Playable(state.players[1], t1) # {}
          /\ BoughtNow(state.players[1], t2) # {}
          /\ Playable(state.players[1], t2) = {}

-----------------------------------------------------------------------------
(* SpecLog: the two-player game of SpecDiscard without robber and cities, in *)
(* which one sheep or one ore is offered for one wheat and declined or       *)
(* accepted again and again until the log has overflowed                     *)

\* trades are proposed until this many log entries have been written
LogMaxIds == 56

\* turns played before the model stops ending turns
LogMaxTurns == 3

LogDice == {<<3, 3>>, <<4, 4>>}

\* what is offered for one wheat: one sheep or one ore
LogOffers == {Cost(0, 0, 1, 0, 0), Cost(0, 0, 0, 0, 1)}

InitLog ==
    InitGameOn(2, getDefaultGameSettings(2), ArmyTerrains, ArmyNumbers, ShuffledDeck)

NextLog ==
    \E sid \in 1..2 :
        \/ \E v \in ArmySetupVertices[sid][state.setupRound] :
              OnPlaceInitialSettlement(sid, v)
        \/ \E e \in ArmySetupEdges : OnPlaceInitialRoad(sid, e)
        \/ \E d \in LogDice : OnRollDice(sid, d[1], d[2])
        \/ /\ NewLogId(state.log) <= LogMaxIds
           /\ \E t \in 1..2 : \E offering \in LogOffers :
                 OnProposeTrade(sid, t, offering, Cost(0, 0, 0, 1, 0))
        \/ \E accept \in BOOLEAN : OnRespondToTrade(sid, accept)
        \/ OnCancelTrade(sid)
        \/ state.turnNumber < LogMaxTurns /\ OnEndTurn(sid)

SpecLog == InitLog /\ [][NextLog]_vars

-----------------------------------------------------------------------------
(* The event log *)

LogIds(log) == {log[k].id : k \in DOMAIN log}

\* after is before with n new entries pushed at its end, the oldest entries of
\* before dropped from its front only as far as the limit forces
PushedOnto(before, after, n) ==
    LET kept == Len(after) - n IN
    /\ kept >= 0
    /\ kept <= Len(before)
    /\ SubSeq(after, 1, kept) = SubSeq(before, Len(before) - kept + 1, Len(before))
    /\ \A k \in (kept + 1)..Len(after) : after[k].id \notin LogIds(before)
    /\ \A j \in (kept + 1)..Len(after), k \in (kept + 1)..Len(after) :
          j # k => after[j].id # after[k].id
    /\ kept < Len(before) => Len(after) = LogLimit

\* C24: the log never holds more than 50 entries; every step leaves the log
\* as it was or pushes new entries at its end, dropping old entries from the
\* front, in order, only when the log would pass 50; a declined trade or an
\* end of turn pushes exactly one entry, and onto a log of 50 entries that
\* drops exactly the oldest one
C24_LogBounded ==
    /\ [](Len(state.log) <= LogLimit)
    /\ [][\E n \in 0..Len(state'.log) : PushedOnto(state.log, state'.log, n)]_vars
    /\ [][\A sid \in 1..2 :
            (OnRespondToTrade(sid, FALSE) \/ OnEndTurn(sid)) =>
                /\ PushedOnto(state.log, state'.log, 1)
                /\ Len(state.log) = LogLimit =>
                      /\ Len(state'.log) = LogLimit
                      /\ SubSeq(state'.log, 1, LogLimit - 1) = Tail(state.log)
                      /\ state'.log[LogLimit].id \notin LogIds(state.log)]_vars

\* the log is full and its first entries have been dropped
C24_Witness ==
    /\ Len(state.log) = LogLimit
    /\ state.log[1].id > 1
    /\ state.log[LogLimit].id >= LogLimit + 2

-----------------------------------------------------------------------------
(* The Road Building sub-phase *)

\* C25: whenever the phase is 'road_building', the current player has a free
\* road placement that buildRoadFromRoadBuilding accepts
C25_RoadBuildingCanProceed ==
    state.phase = "road_building" =>
        \E e \in EdgeIds :
            canBuildRoadFromRoadBuilding(state, getCurrentPlayer(state).id, e)

\* the resources of every player, in the order of the players
AllResources(st) == [i \in PlayerIdxs(st) |-> st.players[i].resources]

\* C26: roadBuildingRoadsLeft is 1 or 2 exactly while the phase is
\* 'road_building'; playing the card sets it to 2 and places nothing; in the
\* sub-phase no game operation of a player other than the current one is
\* accepted, and every step that changes the game puts one road of the current
\* player on an edge that had no road and is connected to that player's
\* network, takes no resource from anyone, keeps the current player and
\* counts down by one, with the phase 'main' exactly when the count is 0
C26_RoadBuildingSubPhase ==
    /\ [](/\ state.roadBuildingRoadsLeft \in 0..2
          /\ state.phase = "road_building" <=> state.roadBuildingRoadsLeft \in {1, 2}
          /\ state.phase = "road_building" =>
                \A sid \in Sockets :
                    sid # getCurrentPlayer(state).id => ~ENABLED GameOperation(sid))
    /\ [][OnPlayRoadBuilding(getCurrentPlayer(state).id) =>
            /\ state'.phase = "road_building"
            /\ state'.roadBuildingRoadsLeft = 2
            /\ state'.board = state.board
            /\ AllResources(state') = AllResources(state)]_vars
    /\ [][(state.phase = "road_building" /\ state' # state) =>
            LET c == state.currentPlayerIndex + 1
                playerId == state.players[c].id
            IN  /\ state'.currentPlayerIndex = state.currentPlayerIndex
                /\ AllResources(state') = AllResources(state)
                /\ state'.players[c].roadsBuilt = state.players[c].roadsBuilt + 1
                /\ state'.roadBuildingRoadsLeft = state.roadBuildingRoadsLeft - 1
                /\ state'.phase = IF state'.roadBuildingRoadsLeft = 0
                                  THEN "main" ELSE "road_building"
                /\ \E e \in EdgeIds :
                      /\ ~state.board.edges[e].road
                      /\ isEdgeConnectedToPlayer(state.board, e, playerId)
                      /\ state'.board.edges =
                            [state.board.edges EXCEPT
                                ![e] = [road |-> TRUE, playerId |-> playerId]]]_vars

\* the card was played this turn and both free roads were placed: player 1
\* is back in 'main' with at least four roads
C26_Witness ==
    /\ state.phase = "main"
    /\ IsCurrent(1)
    /\ state.players[1].devCardPlayedThisTurn
    /\ state.roadBuildingRoadsLeft = 0
    /\ state.players[1].roadsBuilt >= 4

-----------------------------------------------------------------------------
(* A roll of seven *)

\* the ids of the players whose hand is over the hand limit
OverLimit(st) ==
    {st.players[i].id : i \in {j \in PlayerIdxs(st) :
                                  getTotalResources(st.players[j]) > st.settings.handLimit}}

\* C27: a roll of 7 changes no hand and nothing on the board, makes
\* discardingPlayerIds hold exactly the players whose hand is strictly over
\* settings.handLimit, makes the phase 'robber_discard' when there is such a
\* player and 'robber_move' when there is none, and sets the resume phase to
\* 'main'; in every state discardingPlayerIds is non-empty exactly when the
\* phase is 'robber_discard'
C27_RollOfSeven ==
    /\ [](Len(state.discardingPlayerIds) > 0 <=> state.phase = "robber_discard")
    /\ [][\A sid \in 1..2 : \A d \in DiscardDice :
            (d[1] + d[2] = 7 /\ OnRollDice(sid, d[1], d[2])) =>
                /\ AllResources(state') = AllResources(state)
                /\ state'.board = state.board
                /\ {state'.discardingPlayerIds[k] : k \in DOMAIN state'.discardingPlayerIds}
                      = OverLimit(state)
                /\ Len(state'.discardingPlayerIds) = Cardinality(OverLimit(state))
                /\ state'.phase = IF OverLimit(state) # {} THEN "robber_discard"
                                  ELSE "robber_move"
                /\ state'.phaseBeforeRobber = "main"]_vars

\* a seven has just flagged player 2 alone while player 1 holds exactly
\* handLimit cards
C27_Witness ==
    /\ state.phase = "robber_discard"
    /\ state.lastDiceRoll = <<3, 4>>
    /\ state.discardingPlayerIds = <<state.players[2].id>>
    /\ state.phaseBeforeRobber = "main"
    /\ getTotalResources(state.players[1]) = state.settings.handLimit
    /\ OverLimit(state) = {state.players[2].id}

-----------------------------------------------------------------------------
(* SpecRobber: a two-player game on the board of SpecArmy in which knights   *)
(* are bought and played before and after the roll, sevens are rolled, and   *)
(* the robber is moved to hexes with and without victims, who are robbed     *)

\* turns played before the model stops ending turns
RobberMaxTurns == 6

RobberDice == {<<3, 3>>, <<3, 4>>}

\* hexes clients move the robber to: hex 1 touches vertices 1 and 3, the
\* desert and hex 12 touch no building
RobberMoves == {1, 10, 12}

InitRobber ==
    InitGameOn(2, getDefaultGameSettings(2), ArmyTerrains, ArmyNumbers, ShuffledDeck)

NextRobber ==
    \E sid \in 1..2 :
        \/ \E v \in ArmySetupVertices[sid][state.setupRound] :
              OnPlaceInitialSettlement(sid, v)
        \/ \E e \in ArmySetupEdges : OnPlaceInitialRoad(sid, e)
        \/ \E d \in RobberDice : OnRollDice(sid, d[1], d[2])
        \/ \E resources \in DiscardPayloads : OnDiscardResources(sid, resources)
        \/ OnBuyDevCard(sid)
        \/ OnPlayKnight(sid)
        \/ \E h \in RobberMoves : OnMoveRobber(sid, h)
        \/ \E t \in 1..2 : OnStealResource(sid, t, 0)
        \/ state.turnNumber < RobberMaxTurns /\ OnEndTurn(sid)

SpecRobber == InitRobber /\ [][NextRobber]_vars

-----------------------------------------------------------------------------
(* The phase after the robber *)

RobberPhases == {"robber_discard", "robber_move", "robber_steal"}

\* C28: a played knight records the phase it was played in, 'roll' or 'main',
\* and a rolled 7 records 'main'; while the game stays in the robber phases the
\* record and the current player are kept; the step that leaves the robber
\* phases puts the game in the recorded phase with the same current player and
\* clears the record; outside the robber phases the record is null
C28_ResumeAfterRobber ==
    /\ [](/\ state.phase \notin RobberPhases => state.phaseBeforeRobber = "null"
          /\ state.phase \in RobberPhases => state.phaseBeforeRobber \in {"roll", "main"})
    /\ [][\A sid \in 1..2 :
            /\ OnPlayKnight(sid) =>
                  /\ state'.phase = "robber_move"
                  /\ state'.phaseBeforeRobber = state.phase
                  /\ state'.currentPlayerIndex = state.currentPlayerIndex
            /\ OnRollDice(sid, 3, 4) =>
                  /\ state'.phase \in {"robber_discard", "robber_move"}
                  /\ state'.phaseBeforeRobber = "main"
                  /\ state'.currentPlayerIndex = state.currentPlayerIndex]_vars
    /\ [][state.phase \in RobberPhases =>
            /\ state'.currentPlayerIndex = state.currentPlayerIndex
            /\ state'.turnNumber = state.turnNumber
            /\ IF state'.phase \in RobberPhases
               THEN state'.phaseBeforeRobber = state.phaseBeforeRobber
               ELSE /\ state'.phase = state.phaseBeforeRobber
                    /\ state'.phaseBeforeRobber = "null"]_vars

\* player 1 played a knight before rolling, moved the robber to hex 1 and is
\* back in 'roll'
C28_Witness ==
    /\ state.phase = "roll"
    /\ IsCurrent(1)
    /\ state.players[1].devCardPlayedThisTurn
    /\ state.players[1].knightsPlayed > 0
    /\ state.board.hexes[1].hasRobber
    /\ getTotalResources(state.players[1]) > 0
    /\ state.phaseBeforeRobber = "null"

-----------------------------------------------------------------------------
(* The robber's hex *)

RobberAt(st) == {h \in HexIds : st.board.hexes[h].hasRobber}

\* hex ids a client may send that are not on the board
UnknownHexes == {0, 20}

\* C29: in every state exactly one hex holds the robber, and until the setup
\* is over that hex is the desert; an accepted robber move names a hex of the
\* board other than the robber's and leaves the robber on that hex alone; a
\* move that names the robber's own hex or an id not on the board is not
\* accepted in any state
C29_OneRobber ==
    /\ [](/\ Cardinality(RobberAt(state)) = 1
          /\ state.phase \in {"setup_settlement", "setup_road"} =>
                \A h \in RobberAt(state) : state.board.hexes[h].terrain = "desert"
          /\ ~ENABLED (\E sid \in Sockets : \E h \in RobberAt(state) \cup UnknownHexes :
                          OnMoveRobber(sid, h)))
    /\ [][\A sid \in Sockets : \A h \in HexIds \cup UnknownHexes :
            OnMoveRobber(sid, h) =>
                /\ h \in HexIds
                /\ h \notin RobberAt(state)
                /\ RobberAt(state') = {h}]_vars

\* the robber was moved off the desert onto hex 12, and the game went on
C29_Witness ==
    /\ state.board.hexes[12].hasRobber
    /\ state.board.hexes[12].terrain # "desert"
    /\ state.phase = "main"

-----------------------------------------------------------------------------
(* Stealing *)

\* between st and after one card of resource r went from the player at index
\* t to the player at index c, and no other count of any player changed
OneCardMoved(st, after, t, c, r) ==
    /\ st.players[t].resources[r] >= 1
    /\ after.players[t].resources[r] = st.players[t].resources[r] - 1
    /\ after.players[c].resources[r] = st.players[c].resources[r] + 1
    /\ \A i \in PlayerIdxs(st) : \A q \in ResourceTypes :
          (q # r \/ i \notin {t, c}) =>
              after.players[i].resources[q] = st.players[i].resources[q]

\* C30: a steal that succeeds (stealResource finds the target and the target
\* holds a card) moves exactly one card from the target to the current player:
\* for some resource R the target held, the target's R goes down by 1, the
\* current player's R goes up by 1 and no other count changes; and the phase
\* becomes the recorded resume phase
C30_StealMovesOneCard ==
    [][\A sid \in 1..2 : \A targetPlayerId \in 1..2 :
          (/\ OnStealResource(sid, targetPlayerId, 0)
           /\ getTotalResources(state.players[getPlayerById(state, targetPlayerId)]) > 0) =>
              /\ \E r \in ResourceTypes :
                    OneCardMoved(state, state', getPlayerById(state, targetPlayerId),
                                 state.currentPlayerIndex + 1, r)
              /\ state'.phase = state.phaseBeforeRobber]_vars

-----------------------------------------------------------------------------
(* Player trades *)

\* the hands after the pending offer of st has been carried out: the proposer
\* gives the offered and gets the requested amounts, the target the reverse
Exchanged(st) ==
    LET offer == st.tradeOffer IN
    [i \in PlayerIdxs(st) |->
        [r \in ResourceTypes |->
            st.players[i].resources[r]
              + (IF st.players[i].id = offer.fromPlayerId
                 THEN offer.requesting[r] - offer.offering[r] ELSE 0)
              + (IF st.players[i].id = offer.toPlayerId
                 THEN offer.offering[r] - offer.requesting[r] ELSE 0)]]

\* C31: when the target accepts the pending offer, the amounts are exchanged
\* exactly when the proposer holds what is offered and the target what is
\* requested, and then every resource's total over all players is unchanged;
\* otherwise every hand stays as it was; an accept of either outcome and a
\* decline clear the offer and make the phase 'main'; in no state is a
\* response accepted from anyone but the offer's target, or a cancel from
\* anyone but its proposer, and a cancel moves no resource either
C31_TradeExchange ==
    /\ [](\A sid \in Sockets :
            /\ ~(state.phase = "trade" /\ state.tradeOffer # NoOffer
                    /\ state.tradeOffer.toPlayerId = sid) =>
                  ~ENABLED (\E accept \in BOOLEAN : OnRespondToTrade(sid, accept))
            /\ ~(state.phase = "trade" /\ state.tradeOffer # NoOffer
                    /\ state.tradeOffer.fromPlayerId = sid) =>
                  ~ENABLED OnCancelTrade(sid))
    /\ [][\A sid \in 1..2 :
            /\ OnRespondToTrade(sid, TRUE) =>
                  LET offer == state.tradeOffer
                      f == getPlayerById(state, offer.fromPlayerId)
                      t == getPlayerById(state, offer.toPlayerId)
                  IN  /\ IF /\ hasResources(state.players[f], offer.offering)
                            /\ hasResources(state.players[t], offer.requesting)
                         THEN AllResources(state') = Exchanged(state)
                         ELSE AllResources(state') = AllResources(state)
                      /\ \A r \in ResourceTypes :
                            SumOver([i \in PlayerIdxs(state) |-> state'.players[i].resources[r]],
                                    PlayerIdxs(state))
                              = SumOver([i \in PlayerIdxs(state) |-> state.players[i].resources[r]],
                                        PlayerIdxs(state))
                      /\ state'.tradeOffer = NoOffer
                      /\ state'.phase = "main"
            /\ (OnRespondToTrade(sid, FALSE) \/ OnCancelTrade(sid)) =>
                  /\ AllResources(state') = AllResources(state)
                  /\ state'.tradeOffer = NoOffer
                  /\ state'.phase = "main"]_vars

\* in the first turn, after a roll that paid no sheep and no wheat, player 1
\* has given its sheep to player 2 for player 2's wheat
C31_Witness ==
    /\ state.turnNumber = 1
    /\ state.phase = "main"
    /\ state.tradeOffer = NoOffer
    /\ state.lastDiceRoll = <<4, 4>>
    /\ state.players[1].resources["sheep"] = 0
    /\ state.players[1].resources["wheat"] = 2
    /\ state.players[2].resources["sheep"] = 2
    /\ state.players[2].resources["wheat"] = 0

\* the offers tried in every state: nothing, one sheep, one wheat, one ore
TriedOffers == RejectedPayloads \cup LogOffers

\* a proposal of socket sid with any of the tried payloads and any target
AnyProposal(sid) ==
    \E t \in 0..2 : \E offering \in TriedOffers : \E requesting \in TriedOffers :
        OnProposeTrade(sid, t, offering, requesting)

\* a roll, build, bank trade, development card operation or end of turn
TurnOperation(sid) ==
    \/ \E d \in LogDice : OnRollDice(sid, d[1], d[2])
    \/ \E e \in EdgeIds : OnBuildRoad(sid, e)
    \/ \E v \in VertexIds : OnBuildSettlement(sid, v) \/ OnBuildCity(sid, v)
    \/ \E giving \in TriedOffers, receiving \in TriedOffers : OnBankTrade(sid, giving, receiving)
    \/ OnBuyDevCard(sid)
    \/ OnPlayKnight(sid)
    \/ OnPlayRoadBuilding(sid)
    \/ \E r1 \in ResourceTypes, r2 \in ResourceTypes : OnPlayYearOfPlenty(sid, r1, r2)
    \/ \E r \in ResourceTypes : OnPlayMonopoly(sid, r)
    \/ OnEndTurn(sid)

\* C32: an offer is pending exactly when the phase is 'trade'; a proposal is
\* accepted exactly from the current player in 'main' who holds what is
\* offered, and it records that one offer as pending and makes the phase
\* 'trade' without moving a resource; while the phase is 'trade' no roll,
\* build, bank trade, development card operation, end of turn or further
\* proposal of any player is accepted
C32_OfferIffTradePhase ==
    /\ [](/\ state.tradeOffer # NoOffer <=> state.phase = "trade"
          /\ state.tradeOffer # NoOffer => state.tradeOffer.status = "pending"
          /\ \A sid \in Sockets :
                /\ state.phase = "trade" =>
                      ~ENABLED (TurnOperation(sid) \/ AnyProposal(sid))
                /\ \A offering \in TriedOffers :
                      (ENABLED (\E t \in 0..2 : \E requesting \in TriedOffers :
                                  OnProposeTrade(sid, t, offering, requesting)))
                        <=> /\ IsCurrent(sid)
                            /\ state.phase = "main"
                            /\ hasResources(state.players[getPlayerById(state, sid)],
                                            offering))
    /\ [][\A sid \in 1..2 : \A t \in 0..2 :
            \A offering \in TriedOffers : \A requesting \in TriedOffers :
                OnProposeTrade(sid, t, offering, requesting) =>
                    /\ state'.tradeOffer =
                          [fromPlayerId |-> sid, toPlayerId |-> t,
                           offering |-> offering, requesting |-> requesting,
                           status |-> "pending"]
                    /\ state'.phase = "trade"
                    /\ AllResources(state') = AllResources(state)]_vars

\* player 1 has offered player 2 one ore for one wheat and waits for the answer
C32_Witness ==
    /\ state.phase = "trade"
    /\ state.tradeOffer.fromPlayerId = state.players[1].id
    /\ state.tradeOffer.toPlayerId = state.players[2].id
    /\ state.tradeOffer.offering = Cost(0, 0, 0, 0, 1)
    /\ state.tradeOffer.status = "pending"

-----------------------------------------------------------------------------
(* End of turn *)

\* the types of the cards in each player's hand, in order
CardTypes(st) ==
    [i \in PlayerIdxs(st) |->
        [k \in DOMAIN st.players[i].devCards |-> st.players[i].devCards[k].type]]

\* C33: an end-turn is accepted exactly from the current player in 'main'; it
\* makes the next player in the list, cyclically, the current one, the phase
\* 'roll', the trade offer null and turnNumber one higher, and clears
\* devCardPlayedThisTurn and every boughtThisTurn flag of the player whose turn
\* ended; no player's resources, victory points, other counters or card types
\* change, nor the flags of the other players, the board, the deck, the
\* bonuses or the winner
C33_EndTurn ==
    /\ [](\A sid \in Sockets :
            (ENABLED OnEndTurn(sid)) <=> (IsCurrent(sid) /\ state.phase = "main"))
    /\ [][\A sid \in 1..3 :
            OnEndTurn(sid) =>
                LET c == state.currentPlayerIndex + 1 IN
                /\ state'.currentPlayerIndex =
                      (state.currentPlayerIndex + 1) % Len(state.players)
                /\ state'.phase = "roll"
                /\ state'.tradeOffer = NoOffer
                /\ state'.turnNumber = state.turnNumber + 1
                /\ ~state'.players[c].devCardPlayedThisTurn
                /\ \A k \in DOMAIN state'.players[c].devCards :
                      ~state'.players[c].devCards[k].boughtThisTurn
                /\ CardTypes(state') = CardTypes(state)
                /\ \A i \in PlayerIdxs(state) :
                      state'.players[i] =
                          [state.players[i] EXCEPT
                              !.devCardPlayedThisTurn =
                                  IF i = c THEN FALSE ELSE @,
                              !.devCards =
                                  IF i = c THEN state'.players[c].devCards ELSE @]
                /\ state'.board = state.board
                /\ state'.devCardDeck = state.devCardDeck
                /\ state'.winnerId = state.winnerId
                /\ state'.longestRoadPlayerId = state.longestRoadPlayerId
                /\ state'.largestArmyPlayerId = state.largestArmyPlayerId]_vars

\* the third player of three has ended the third turn, so the first player is
\* to roll in turn 4, holding unflagged the card bought in turn 1
C33_Witness ==
    /\ state.turnNumber = 4
    /\ state.phase = "roll"
    /\ state.currentPlayerIndex = 0
    /\ Len(state.players[1].devCards) = 1
    /\ ~state.players[1].devCards[1].boughtThisTurn
    /\ ~state.players[1].devCardPlayedThisTurn

-----------------------------------------------------------------------------
(* SpecDeck: the two-player game of SpecArmy played until the deck is empty. *)
(* A client buys a card whenever it can and plays a knight whenever it can,  *)
(* player 1 before rolling and player 2 after, ahead of anything else; the   *)
(* robber moves between the desert and hex 12                                *)

\* turns played before the model stops ending turns
DeckMaxTurns == 19

\* the client of sid has a knight to play in the phase it plays knights in
KnightDue(sid) ==
    /\ canPlayDevCard(state, sid, "knight")
    /\ state.phase = (IF sid = 1 THEN "roll" ELSE "main")

InitDeck ==
    InitGameOn(2, getDefaultGameSettings(2), ArmyTerrains, ArmyNumbers, ShuffledDeck)

NextDeck ==
    \E sid \in 1..2 :
        \/ \E v \in ArmySetupVertices[sid][state.setupRound] :
              OnPlaceInitialSettlement(sid, v)
        \/ \E e \in ArmySetupEdges : OnPlaceInitialRoad(sid, e)
        \/ ~KnightDue(sid) /\ \E d \in ArmyDice : OnRollDice(sid, d[1], d[2])
        \/ ~KnightDue(sid) /\ OnBuyDevCard(sid)
        \/ KnightDue(sid) /\ OnPlayKnight(sid)
        \/ \E h \in ArmyRobberHexes : OnMoveRobber(sid, h)
        \/ /\ state.turnNumber < DeckMaxTurns
           /\ ~KnightDue(sid)
           /\ ~canBuyDevCard(state, sid)
           /\ OnEndTurn(sid)

SpecDeck == InitDeck /\ [][NextDeck]_vars

-----------------------------------------------------------------------------
(* The development card deck *)

\* the cards in the deck and in the players' hands
CardsLeft(st) ==
    Len(st.devCardDeck)
      + SumOver([i \in PlayerIdxs(st) |-> Len(st.players[i].devCards)], PlayerIdxs(st))

\* the knights the players have played
KnightsPlayed(st) ==
    SumOver([i \in PlayerIdxs(st) |-> st.players[i].knightsPlayed], PlayerIdxs(st))

\* C34: the deck holds 25 cards until the setup is over and never grows; a
\* purchase is accepted exactly from the current player in 'main' who holds 1
\* sheep, 1 wheat and 1 ore while the deck is not empty; it takes the last
\* card off the deck, puts that card at the end of the buyer's hand and costs
\* the buyer exactly 1 sheep, 1 wheat and 1 ore, no other hand changing; the
\* cards in deck and hands go down by one with every played card and change
\* with no other step, so that with the cards played (here all knights) they
\* are always 25
C34_DeckConserved ==
    /\ [](/\ InSetup(state) => Len(state.devCardDeck) = 25
          /\ CardsLeft(state) + KnightsPlayed(state) = 25
          /\ \A sid \in Sockets :
                (ENABLED OnBuyDevCard(sid)) <=>
                    /\ IsCurrent(sid)
                    /\ state.phase = "main"
                    /\ Len(state.devCardDeck) > 0
                    /\ hasResources(state.players[getPlayerById(state, sid)],
                                    Cost(0, 0, 1, 1, 1)))
    /\ [][/\ Len(state'.devCardDeck) <= Len(state.devCardDeck)
          /\ CardsLeft(state') =
                CardsLeft(state)
                  - (IF \E sid \in 1..2 : \E cardType \in PlayedTypes : PlayOf(sid, cardType)
                     THEN 1 ELSE 0)
          /\ \A sid \in 1..2 :
                OnBuyDevCard(sid) =>
                    LET i == getPlayerById(state, sid)
                        n == Len(state.devCardDeck)
                        hand == state'.players[i].devCards
                    IN  /\ state'.devCardDeck = SubSeq(state.devCardDeck, 1, n - 1)
                        /\ Len(hand) = Len(state.players[i].devCards) + 1
                        /\ SubSeq(hand, 1, Len(hand) - 1) = state.players[i].devCards
                        /\ hand[Len(hand)].type = state.devCardDeck[n].type
                        /\ \A j \in PlayerIdxs(state) : \A r \in ResourceTypes :
                              state'.players[j].resources[r] =
                                  state.players[j].resources[r]
                                    - (IF j = i /\ r \in {"sheep", "wheat", "ore"}
                                       THEN 1 ELSE 0)]_vars

\* the deck is empty while the current player holds the price of a card
C34_Witness ==
    /\ Len(state.devCardDeck) = 0
    /\ state.phase = "main"
    /\ hasResources(getCurrentPlayer(state), BUILDING_COSTS.devCard)
    /\ CardsLeft(state) < 25

-----------------------------------------------------------------------------
(* One development card per turn *)

\* C35: a play of a knight, road building, year of plenty or monopoly card is
\* accepted only while the player's devCardPlayedThisTurn is false and sets
\* it; the flag becomes true by no other step and false again only by that
\* player's end-turn, and only the current player can have it set; so while it
\* is set, before or after the roll, no play of any type is accepted, and a
\* victory_point card passes canPlayDevCard in no state
C35_OneCardPerTurn ==
    /\ [](\A sid \in 1..2 :
            LET player == state.players[getPlayerById(state, sid)] IN
            /\ player.devCardPlayedThisTurn =>
                  /\ IsCurrent(sid)
                  /\ ~ENABLED (\E cardType \in PlayedTypes : PlayOf(sid, cardType))
            /\ ~canPlayDevCard(state, sid, "victory_point"))
    /\ [][\A sid \in 1..2 :
            LET i == getPlayerById(state, sid)
                played == state.players[i].devCardPlayedThisTurn
                playedNext == state'.players[i].devCardPlayedThisTurn
                hand == Len(state.players[i].devCards)
                handNext == Len(state'.players[i].devCards)
            IN  /\ (\E cardType \in PlayedTypes : PlayOf(sid, cardType)) =>
                      ~played /\ playedNext /\ handNext = hand - 1
                /\ (~played /\ playedNext) =>
                      \E cardType \in PlayedTypes : PlayOf(sid, cardType)
                /\ (played /\ ~playedNext) => OnEndTurn(sid)
                /\ handNext < hand => ~played /\ playedNext]_vars

\* player 2 has rolled, played a knight after the roll and holds another
\* knight from an earlier turn
C35_Witness ==
    /\ IsCurrent(2)
    /\ state.phase = "main"
    /\ state.players[2].devCardPlayedThisTurn
    /\ Playable(state.players[2], "knight") # {}

-----------------------------------------------------------------------------
(* Connected roads *)

\* edge e touches, at one of its ends, a building of the player or a road of
\* the player on another edge
Touches(board, e, playerId) ==
    \/ \E v \in EdgeEnds(e) : board.vertices[v].playerId = playerId
    \/ \E v \in EdgeEnds(e) : \E f \in getVertexEdges(v) \ {e} :
          board.edges[f].road /\ board.edges[f].playerId = playerId

\* C36: in every state every road touches a building of its owner or another
\* road of its owner; a paid or free road passes the build test only on an
\* edge without road that touches the player's building or road, and a setup
\* road passes only on an edge without road at the settlement the player has
\* just placed; every step that changes an edge puts the current player's road
\* on such an edge
C36_RoadsConnected ==
    /\ [](/\ \A e \in EdgeIds :
                state.board.edges[e].road =>
                    /\ state.board.edges[e].playerId # NoPlayer
                    /\ Touches(state.board, e, state.board.edges[e].playerId)
          /\ \A sid \in 1..2 : \A e \in EdgeIds :
                /\ (canBuildRoad(state, sid, e, FALSE) \/ canBuildRoad(state, sid, e, TRUE)) =>
                      /\ ~state.board.edges[e].road
                      /\ Touches(state.board, e, sid)
                /\ canPlaceInitialRoad(state, sid, e) =>
                      /\ ~state.board.edges[e].road
                      /\ getCurrentPlayer(state).lastPlacedVertexId \in EdgeEnds(e)
                      /\ state.board.vertices[getCurrentPlayer(state).lastPlacedVertexId].playerId
                            = sid)
    /\ [][\A e \in EdgeIds :
            state'.board.edges[e] # state.board.edges[e] =>
                /\ ~state.board.edges[e].road
                /\ state'.board.edges[e].road
                /\ state'.board.edges[e].playerId = getCurrentPlayer(state).id
                /\ Touches(state.board, e, getCurrentPlayer(state).id)]_vars

\* player 1 has a road on edge 19, between vertices without a building: it
\* hangs on player 1's other roads alone
C36_Witness ==
    /\ state.board.edges[19].road
    /\ state.board.edges[19].playerId = state.players[1].id
    /\ \A v \in EdgeEnds(19) : state.board.vertices[v].playerId = NoPlayer

-----------------------------------------------------------------------------
(* Generated boards: games started on every rotation of the terrain list    *)
(* and of the number list, so that the desert falls on each of the 19 hexes *)
(* and each number on each place; the players then place their setup        *)
(* pieces, which leaves the hexes as they were generated.                   *)

TerrainTurns == 18
NumberTurns == 17

\* the sequence s turned left by k places
Turned(s, k) == [i \in 1..Len(s) |-> s[((i + k - 1) % Len(s)) + 1]]

InitBoard ==
    \E k \in 0..TerrainTurns : \E m \in 0..NumberTurns :
        InitGameOn(2, getDefaultGameSettings(2),
                   Turned(TERRAIN_DISTRIBUTION, k), Turned(NUMBER_DISTRIBUTION, m),
                   ShuffledDeck)

NextBoard ==
    \E sid \in 1..2 :
        \/ \E v \in ArmySetupVertices[sid][state.setupRound] : OnPlaceInitialSettlement(sid, v)
        \/ \E e \in ArmySetupEdges : OnPlaceInitialRoad(sid, e)

SpecBoard == InitBoard /\ [][NextBoard]_vars

\* how many hexes have terrain t
HexesOf(board, t) == Cardinality({h \in HexIds : board.hexes[h].terrain = t})

\* how many hexes carry number n
HexesNumbered(board, n) == Cardinality({h \in HexIds : board.hexes[h].number = n})

\* how many harbors are of kind t
HarborsOf(t) == Cardinality({i \in 1..Len(Harbors) : Harbors[i].type = t})

\* C37: a generated board has 19 hexes, 4 wood, 4 sheep, 4 wheat, 3 brick,
\* 3 ore and 1 desert; the 18 other hexes carry the numbers 2, 3, 3, 4, 4, 5,
\* 5, 6, 6, 8, 8, 9, 9, 10, 10, 11, 11, 12, one each; the desert has no number
\* and it alone holds the robber; there are 9 harbors, four 3:1 and one each
\* of wheat, ore, sheep, brick and wood, each at two distinct vertices joined
\* by an edge
C37_GeneratedBoard ==
    /\ DOMAIN state.board.hexes = HexIds
    /\ Cardinality(HexIds) = 19
    /\ HexesOf(state.board, "wood") = 4
    /\ HexesOf(state.board, "sheep") = 4
    /\ HexesOf(state.board, "wheat") = 4
    /\ HexesOf(state.board, "brick") = 3
    /\ HexesOf(state.board, "ore") = 3
    /\ HexesOf(state.board, "desert") = 1
    /\ \A n \in {2, 12} : HexesNumbered(state.board, n) = 1
    /\ \A n \in {3, 4, 5, 6, 8, 9, 10, 11} : HexesNumbered(state.board, n) = 2
    /\ \A h \in HexIds :
          /\ state.board.hexes[h].terrain = "desert" <=> state.board.hexes[h].number = 0
          /\ state.board.hexes[h].terrain = "desert" <=> state.board.hexes[h].hasRobber
          /\ state.board.hexes[h].number \in {0, 2, 3, 4, 5, 6, 8, 9, 10, 11, 12}
    /\ Len(Harbors) = 9
    /\ HarborsOf("3:1") = 4
    /\ \A t \in {"wheat", "ore", "sheep", "brick", "wood"} : HarborsOf(t) = 1
    /\ \A i \in 1..Len(Harbors) :
          /\ Harbors[i].vertexIds[1] # Harbors[i].vertexIds[2]
          /\ \E e \in EdgeIds :
                EdgeEnds(e) = {Harbors[i].vertexIds[1], Harbors[i].vertexIds[2]}

\* a board with the desert, and the robber, on the last hex and the 12 on the
\* first, on which player 1 has placed a settlement
C37_Witness ==
    /\ state.board.hexes[19].terrain = "desert"
    /\ state.board.hexes[19].hasRobber
    /\ state.board.hexes[1].number = 12
    /\ \E v \in VertexIds : state.board.vertices[v].playerId = state.players[1].id

-----------------------------------------------------------------------------
(* SpecOwners: two players whose first roads meet at vertex 2 build roads,  *)
(* settlements and cities on and around each other's pieces, and a roll of  *)
(* 7 made while no hand is over the limit lets the roller move the robber   *)
(* and steal.  Hexes 1 and 2 are wood and brick on 6, hexes 6 and 7 ore and *)
(* wheat on 8, the desert is hex 19.                                        *)

OwnersTerrains ==
    << "wood", "brick", "sheep", "wheat", "ore", "ore", "wheat",
       "wood", "sheep", "wood", "brick", "brick", "wheat", "ore",
       "wheat", "sheep", "sheep", "wood", "desert" >>

OwnersNumbers ==
    << 6, 6, 2, 3, 3, 8, 8, 4, 4, 5, 5, 9, 9, 10, 10, 11, 11, 12 >>

\* turns played before the model stops ending turns
OwnersMaxTurns == 7

OwnersSetupVertices == << << {1}, {20} >>, << {3}, {14} >> >>
OwnersSetupEdges == {1, 24, 2, 16}

OwnersDice == {<<3, 3>>, <<4, 4>>, <<3, 4>>}

\* edges and vertices clients ask to build on: free ones, taken ones and ones
\* out of reach
OwnersEdges == {1, 2, 9, 6, 3}
OwnersVertices == {9, 2, 1}
OwnersCities == {1, 3, 20}
OwnersRobberHexes == {1, 7}

InitOwners ==
    InitGameOn(2, getDefaultGameSettings(2), OwnersTerrains, OwnersNumbers, ShuffledDeck)

NextOwners ==
    \E sid \in 1..2 :
        \/ \E v \in OwnersSetupVertices[sid][state.setupRound] :
              OnPlaceInitialSettlement(sid, v)
        \/ \E e \in OwnersSetupEdges : OnPlaceInitialRoad(sid, e)
        \/ \E d \in OwnersDice :
              /\ d[1] + d[2] = 7 => Len(getPlayersToDiscard(state)) = 0
              /\ OnRollDice(sid, d[1], d[2])
        \/ \E h \in OwnersRobberHexes : OnMoveRobber(sid, h)
        \/ \E t \in 1..2 : OnStealResource(sid, t, 0)
        \/ \E e \in OwnersEdges : OnBuildRoad(sid, e)
        \/ \E v \in OwnersVertices : OnBuildSettlement(sid, v)
        \/ \E v \in OwnersCities : OnBuildCity(sid, v)
        \/ state.turnNumber < OwnersMaxTurns /\ OnEndTurn(sid)

SpecOwners == InitOwners /\ [][NextOwners]_vars

\* C38: in every step an edge with a road keeps its road and its owner; a
\* vertex with a building keeps a building and its owner, and its kind changes
\* only from settlement to city, in a step of its owner as current player that
\* counts one more city for the owner; every hex keeps its terrain and number.
\* Vertex-hex adjacency, edge endpoints and harbors are the tables
\* VertexHexIds, EdgeVertexIds and Harbors, which no operation writes.
C38_OwnershipMonotonic ==
    [][/\ \A e \in EdgeIds :
            state.board.edges[e].road => state'.board.edges[e] = state.board.edges[e]
       /\ \A v \in VertexIds :
            state.board.vertices[v].building # "null" =>
                /\ state'.board.vertices[v].playerId = state.board.vertices[v].playerId
                /\ state'.board.vertices[v].building # "null"
                /\ state'.board.vertices[v].building # state.board.vertices[v].building =>
                      /\ state.board.vertices[v].building = "settlement"
                      /\ state'.board.vertices[v].building = "city"
                      /\ getCurrentPlayer(state).id = state.board.vertices[v].playerId
                      /\ getCurrentPlayer(state').citiesBuilt
                            = getCurrentPlayer(state).citiesBuilt + 1
       /\ \A h \in HexIds :
            /\ state'.board.hexes[h].terrain = state.board.hexes[h].terrain
            /\ state'.board.hexes[h].number = state.board.hexes[h].number]_vars

\* player 1 has built a third road and a third settlement and turned a
\* settlement into a city, player 2 has roads and settlements of its own,
\* and the robber has left the desert
C38_Witness ==
    /\ state.players[1].roadsBuilt >= 3
    /\ \E v \in VertexIds :
          /\ state.board.vertices[v].building = "city"
          /\ state.board.vertices[v].playerId = state.players[1].id
    /\ \E v \in VertexIds \ {1, 20} :
          /\ state.board.vertices[v].building = "settlement"
          /\ state.board.vertices[v].playerId = state.players[1].id
    /\ state.board.edges[2].road /\ state.board.edges[2].playerId = state.players[2].id
    /\ ~state.board.hexes[19].hasRobber

-----------------------------------------------------------------------------
(* SpecTurn: on the board of SpecOwners the players roll, buy development   *)
(* cards, play knights before or after the roll, rob, build, trade with     *)
(* each other and with the bank, and end their turns.                       *)

\* turns played before the model stops ending turns
TurnMaxTurns == 5

\* trades are proposed while the log holds fewer entries than this
TurnMaxLog == 19

TurnEdges == {9, 6}
TurnCities == {1, 3}

InitTurn ==
    InitGameOn(2, getDefaultGameSettings(2), OwnersTerrains, OwnersNumbers, ShuffledDeck)

NextTurn ==
    \E sid \in 1..2 :
        \/ \E v \in OwnersSetupVertices[sid][state.setupRound] :
              OnPlaceInitialSettlement(sid, v)
        \/ \E e \in OwnersSetupEdges : OnPlaceInitialRoad(sid, e)
        \/ \E d \in OwnersDice :
              /\ d[1] + d[2] = 7 => Len(getPlayersToDiscard(state)) = 0
              /\ OnRollDice(sid, d[1], d[2])
        \/ OnBuyDevCard(sid)
        \/ OnPlayKnight(sid)
        \/ \E h \in OwnersRobberHexes : OnMoveRobber(sid, h)
        \/ \E t \in 1..2 : OnStealResource(sid, t, 0)
        \/ \E e \in TurnEdges : OnBuildRoad(sid, e)
        \/ \E v \in TurnCities : OnBuildCity(sid, v)
        \/ /\ Len(state.log) < TurnMaxLog
           /\ \E t \in 1..2 :
                 OnProposeTrade(sid, t, Cost(1, 0, 0, 0, 0), Cost(0, 0, 0, 1, 0))
        \/ \E accept \in BOOLEAN : OnRespondToTrade(sid, accept)
        \/ OnCancelTrade(sid)
        \/ OnBankTrade(sid, Cost(0, 0, 0, 4, 0), Cost(0, 0, 1, 0, 0))
        \/ state.turnNumber < TurnMaxTurns /\ OnEndTurn(sid)

SpecTurn == InitTurn /\ [][NextTurn]_vars

\* setup is over
PostSetup(st) == st.phase \notin {"setup_settlement", "setup_road"}

\* the current turn has not had its roll: the phase is 'roll', or a knight
\* played in 'roll' has the robber sequence under way
BeforeRoll(st) ==
    \/ st.phase = "roll"
    \/ st.phase \in {"robber_move", "robber_steal"} /\ st.phaseBeforeRobber = "roll"

\* the current turn has had its roll
Rolled(st) == PostSetup(st) /\ ~BeforeRoll(st)

\* the step is a dice roll of the current player
RollStep == \E die1, die2 \in 1..6 : OnRollDice(getCurrentPlayer(state).id, die1, die2)

\* the step is an end-turn of the current player
EndTurnStep == OnEndTurn(getCurrentPlayer(state).id)

\* the step plays the current player's knight or carries on its robber sequence
KnightStep ==
    \/ OnPlayKnight(getCurrentPlayer(state).id)
    \/ \E h \in HexIds : OnMoveRobber(getCurrentPlayer(state).id, h)
    \/ \E t \in 0..2 : OnStealResource(getCurrentPlayer(state).id, t, 0)

\* C39: setup ends in a turn that has not had its roll; the turn changes only
\* by an end-turn, which needs the roll made and starts a turn without roll;
\* a turn gets its roll only by a dice roll of the current player, and a dice
\* roll is accepted only in a turn without roll: one roll between two
\* end-turns.  Before the roll no build, offer, answer to an offer, bank
\* trade, purchase or play of another card is accepted from anyone, and every
\* step is a roll, a knight or its robber sequence
C39_OneRollPerTurn ==
    /\ [](BeforeRoll(state) =>
            \A sid \in 1..2 :
                /\ \A e \in TurnEdges : ~ENABLED OnBuildRoad(sid, e)
                /\ \A v \in OwnersVertices : ~ENABLED OnBuildSettlement(sid, v)
                /\ \A v \in TurnCities : ~ENABLED OnBuildCity(sid, v)
                /\ ~ENABLED OnBuyDevCard(sid)
                /\ \A t \in 1..2 :
                      ~ENABLED OnProposeTrade(sid, t, Cost(1, 0, 0, 0, 0), Cost(0, 0, 0, 1, 0))
                /\ \A accept \in BOOLEAN : ~ENABLED OnRespondToTrade(sid, accept)
                /\ ~ENABLED OnBankTrade(sid, Cost(0, 0, 0, 4, 0), Cost(0, 0, 1, 0, 0))
                /\ ~ENABLED OnPlayRoadBuilding(sid)
                /\ \A r \in ResourceTypes :
                      ~ENABLED OnPlayYearOfPlenty(sid, r, r) /\ ~ENABLED OnPlayMonopoly(sid, r)
                /\ ~ENABLED OnEndTurn(sid))
    /\ [][/\ (~PostSetup(state) /\ PostSetup(state')) =>
                state'.phase = "roll"
          /\ (PostSetup(state) /\ state'.turnNumber # state.turnNumber) =>
                EndTurnStep /\ Rolled(state) /\ BeforeRoll(state')
          /\ (BeforeRoll(state) /\ Rolled(state')) => RollStep
          /\ (BeforeRoll(state) /\ BeforeRoll(state')) => KnightStep
          /\ (Rolled(state) /\ BeforeRoll(state')) => EndTurnStep
          /\ \A sid \in 1..2 : \A d \in OwnersDice :
                OnRollDice(sid, d[1], d[2]) =>
                    /\ state.phase = "roll"
                    /\ getCurrentPlayer(state).id = sid
                    /\ Rolled(state')]_vars

\* player 1, who built a road in an earlier turn, has played a knight before
\* rolling and moved the robber, and is about to steal
C39_Witness ==
    /\ state.phase = "robber_steal"
    /\ state.phaseBeforeRobber = "roll"
    /\ state.players[1].knightsPlayed = 1
    /\ state.players[1].roadsBuilt = 3

-----------------------------------------------------------------------------
(* SpecPayloads: on the board of SpecOwners the players roll, trade with    *)
(* the bank and with each other and end their turns; the amounts clients    *)
(* send are positive, zero and negative integers.                           *)

\* turns played before the model stops ending turns
PayloadsMaxTurns == 3

\* trades are made and proposed while the log holds fewer entries than this
PayloadsMaxLog == 20

PayloadsDice == {<<3, 3>>, <<4, 4>>}

\* bank-trade payloads: four wood, no card, or a negative amount of brick for
\* one sheep, no card, or a negative amount of ore
PayloadsGivings == {Cost(4, 0, 0, 0, 0), Cost(0, 0, 0, 0, 0), Cost(0, -1, 0, 0, 0)}
PayloadsReceivings == {Cost(0, 0, 1, 0, 0), Cost(0, 0, 0, 0, 0), Cost(0, 0, 0, 0, -1)}

\* trade-offer payloads: one wood or a negative amount of wood for one wheat
PayloadsOfferings == {Cost(1, 0, 0, 0, 0), Cost(-1, 0, 0, 0, 0)}
PayloadsRequestings == {Cost(0, 0, 0, 1, 0)}

InitPayloads ==
    InitGameOn(2, getDefaultGameSettings(2), OwnersTerrains, OwnersNumbers, ShuffledDeck)

NextPayloads ==
    \E sid \in 1..2 :
        \/ \E v \in OwnersSetupVertices[sid][state.setupRound] :
              OnPlaceInitialSettlement(sid, v)
        \/ \E e \in OwnersSetupEdges : OnPlaceInitialRoad(sid, e)
        \/ \E d \in PayloadsDice : OnRollDice(sid, d[1], d[2])
        \/ /\ Len(state.log) < PayloadsMaxLog
           /\ \E giving \in PayloadsGivings : \E receiving \in PayloadsReceivings :
                 OnBankTrade(sid, giving, receiving)
        \/ /\ Len(state.log) < PayloadsMaxLog
           /\ \E offering \in PayloadsOfferings : \E requesting \in PayloadsRequestings :
                 OnProposeTrade(sid, 3 - sid, offering, requesting)
        \/ \E accept \in BOOLEAN : OnRespondToTrade(sid, accept)
        \/ OnCancelTrade(sid)
        \/ state.turnNumber < PayloadsMaxTurns /\ OnEndTurn(sid)

SpecPayloads == InitPayloads /\ [][NextPayloads]_vars

\* what the player at index i gains of resource r in the step
Gain(i, r) == state'.players[i].resources[r] - state.players[i].resources[r]

\* C40: every player's count of every resource is a natural number in every
\* state, whatever integers the payloads hold, and a player's count rises only
\* with starting resources, in a roll, in a steal, with a played development
\* card, by at most the side of an accepted offer that player is due, or by at
\* most the amount of that resource asked of the bank
C40_ResourcesNonNegative ==
    /\ [](\A i \in PlayerIdxs(state) : \A r \in ResourceTypes :
            state.players[i].resources[r] \in Nat)
    /\ [][\A i \in PlayerIdxs(state) : \A r \in ResourceTypes :
            Gain(i, r) > 0 =>
                \/ ~PostSetup(state)
                \/ state.phase = "roll"
                \/ state.phase = "robber_steal"
                \/ Len(state'.players[i].devCards) < Len(state.players[i].devCards)
                \/ /\ state.phase = "trade"
                   /\ \/ /\ state.tradeOffer.fromPlayerId = state.players[i].id
                         /\ Gain(i, r) <= state.tradeOffer.requesting[r]
                      \/ /\ state.tradeOffer.toPlayerId = state.players[i].id
                         /\ Gain(i, r) <= state.tradeOffer.offering[r]
                \/ \E giving \in PayloadsGivings : \E receiving \in PayloadsReceivings :
                      /\ OnBankTrade(state.players[i].id, giving, receiving)
                      /\ Gain(i, r) <= receiving[r]]_vars

=============================================================================
